---- MODULE Spec2Model ----
(***************************************************************************)
(* A model of soilstat: the layered soil stress model (SoilLayer,          *)
(* SoilProfile), the experiment logs (CPTLog, MASWLog, SPT) and the        *)
(* liquefaction entry points that walk a profile and a log.                *)
(*                                                                         *)
(* Numbers.  Python floats are modelled by exact integers:                 *)
(*   - lengths (thickness, depth, center, ground_water_level) are in half  *)
(*     metres; every thickness the model draws is a whole number of        *)
(*     metres (an even number of units), so that the source's              *)
(*     thickness / 2 is exact;                                             *)
(*   - unit weights are in 1/1000 t/m^3 (1800 is 1.8 t/m^3), so that the   *)
(*     unit weight of water, 0.981, is the integer 981; a stress is        *)
(*     therefore in 1/2000 t/m^2;                                          *)
(*   - comparisons of products beyond 32-bit integers are made on          *)
(*     fractions (RatLeq), exactly.                                        *)
(* Rounding of floats is not modelled.                                     *)
(* Python's 0-based list indices are kept in what the operations return;   *)
(* the sequences of the model are 1-based.                                 *)
(***************************************************************************)
EXTENDS Integers, Sequences, FiniteSets, TLC

VARIABLES
    heap,       \* the SoilLayer objects, by identity: heap[id] is the object's fields
    profiles,   \* the SoilProfile objects that exist: layers (ids into heap), ground_water_level
    log,        \* the experiment log object: its kind and its records (exps)
    ret         \* the last call: the operation, its arguments and its outcome

vars == <<heap, profiles, log, ret>>

-----------------------------------------------------------------------------
(* Bounds of the model.                                                    *)

MaxLayers == 3          \* SoilLayer objects that are created
MaxQueryDepth == 13     \* query depths run over 0..MaxQueryDepth

(* Python's None, as the value of a thickness that was not specified. It   *)
(* is outside every range of numbers the model draws and never enters      *)
(* arithmetic: calc_layer_depths raises before it reads a None thickness.  *)
None == -1000000

(* 0.981 t/m^3, the unit weight of water, in 1/1000 t/m^3.                 *)
WaterUnitWeight == 981

NoCall == [op |-> "none"]
NoLog == [kind |-> "none", exps |-> <<>>]

-----------------------------------------------------------------------------
(* SoilLayer: the fields the stress model and the pipelines read.          *)

SoilLayer(thickness, dry, sat, depth, center, pi, fc) ==
    [thickness |-> thickness, dry_unit_weight |-> dry, saturated_unit_weight |-> sat,
     depth |-> depth, center |-> center, plasticity_index |-> pi, fine_content |-> fc]

(* The layers a caller hands to SoilProfile in the stress specification:   *)
(* an unspecified, a negative, a zero and two positive thicknesses; a      *)
(* soil heavier when saturated and one lighter than water; and depth and   *)
(* center fields the caller has set to values of its own.                  *)
Thicknesses == {None, -2, 0, 2, 4}

LayerInputs ==
    {SoilLayer(t, 1800, 2000, 0, 0, 0, 0) : t \in Thicknesses}
    \cup {SoilLayer(t, 1600, 500, 6, 1, 0, 0) : t \in {2, 4}}

GroundWaterLevels == {0, 3, 6, 40}

QueryDepths == 0..MaxQueryDepth

-----------------------------------------------------------------------------
(* SoilProfile.                                                            *)

(* thickness / 2, exact on the even thicknesses of the model.              *)
Half(x) == x \div 2

(* validate without its check: an empty list passes.                       *)
validate_unchecked(layers) == "ok"

(* validate: the error it raises, or "ok".                                 *)
validate(layers) ==
    IF layers = <<>> THEN "ValueError" ELSE "ok"

(* The loop with the center put at the layer's bottom: the half is lost.   *)
RECURSIVE DepthLoop_center_at_bottom(_, _, _, _, _)
DepthLoop_center_at_bottom(h, ids, i, bottom, center) ==
    IF i > Len(ids) THEN h
    ELSE LET thickness == h[ids[i]].thickness
             c == IF i > 1 THEN bottom + thickness ELSE center
             b == IF i > 1 THEN bottom + thickness ELSE bottom
             h2 == [h EXCEPT ![ids[i]].center = c, ![ids[i]].depth = b]
         IN  DepthLoop_center_at_bottom(h2, ids, i + 1, b, c)

(* The loop of calc_layer_depths over layers i..Len(ids), with the running *)
(* bottom and center; h is the heap as the earlier iterations left it.     *)
RECURSIVE DepthLoop(_, _, _, _, _)
DepthLoop(h, ids, i, bottom, center) ==
    IF i > Len(ids) THEN h
    ELSE LET thickness == h[ids[i]].thickness
             c == IF i > 1 THEN bottom + Half(thickness) ELSE center
             b == IF i > 1 THEN bottom + thickness ELSE bottom
             h2 == [h EXCEPT ![ids[i]].center = c, ![ids[i]].depth = b]
         IN  DepthLoop(h2, ids, i + 1, b, c)

(* calc_layer_depths on the layer objects ids of heap h: the error raised  *)
(* or "ok", and the heap it leaves.                                        *)
calc_layer_depths(h, ids) ==
    IF ids = <<>> THEN [error |-> "ok", heap |-> h]
    ELSE IF \E i \in 1..Len(ids) : h[ids[i]].thickness = None
    THEN [error |-> "ValueError", heap |-> h]
    ELSE IF Len(ids) = 1
    THEN [error |-> "ok",
          heap |-> [h EXCEPT ![ids[1]].center = Half(h[ids[1]].thickness),
                             ![ids[1]].depth = h[ids[1]].thickness]]
    ELSE [error |-> "ok",
          heap |-> DepthLoop(h, ids, 1, h[ids[1]].thickness, Half(h[ids[1]].thickness))]

(* SoilProfile.__init__: validate, then calc_layer_depths; the methods     *)
(* entered, the error raised or "ok", and the heap left.                   *)
SoilProfileInit(h, ids) ==
    IF validate(ids) # "ok"
    THEN [error |-> validate(ids), trace |-> <<"validate">>, heap |-> h]
    ELSE [error |-> calc_layer_depths(h, ids).error,
          trace |-> <<"validate", "calc_layer_depths">>,
          heap |-> calc_layer_depths(h, ids).heap]

(* get_layer_index with > for >=: a depth on a layer bottom falls into the *)
(* next layer.                                                             *)
get_layer_index_strict(h, p, depth) ==
    IF \E i \in 1..Len(p.layers) : h[p.layers[i]].depth > depth
    THEN (CHOOSE i \in 1..Len(p.layers) :
             /\ h[p.layers[i]].depth > depth
             /\ \A j \in 1..(i - 1) : ~(h[p.layers[j]].depth > depth)) - 1
    ELSE Len(p.layers) - 1

(* get_layer_index: Python's 0-based index.                                *)
get_layer_index(h, p, depth) ==
    IF \E i \in 1..Len(p.layers) : h[p.layers[i]].depth >= depth
    THEN (CHOOSE i \in 1..Len(p.layers) :
             /\ h[p.layers[i]].depth >= depth
             /\ \A j \in 1..(i - 1) : ~(h[p.layers[j]].depth >= depth)) - 1
    ELSE Len(p.layers) - 1

get_layer_at_depth(h, p, depth) == h[p.layers[get_layer_index(h, p, depth) + 1]]

(* The increment with the split branch weighing the whole increment as     *)
(* saturated on top of its dry part.                                       *)
StressIncrement_no_split(layer, gwl, previous_depth, layer_thickness) ==
    IF gwl >= previous_depth + layer_thickness
    THEN layer.dry_unit_weight * layer_thickness
    ELSE IF gwl <= previous_depth
    THEN layer.saturated_unit_weight * layer_thickness
    ELSE layer.dry_unit_weight * (gwl - previous_depth)
         + layer.saturated_unit_weight * layer_thickness

(* One iteration's contribution to the stress: the increment of thickness  *)
(* layer_thickness below previous_depth, in layer.                         *)
StressIncrement(layer, gwl, previous_depth, layer_thickness) ==
    IF gwl >= previous_depth + layer_thickness
    THEN layer.dry_unit_weight * layer_thickness
    ELSE IF gwl <= previous_depth
    THEN layer.saturated_unit_weight * layer_thickness
    ELSE layer.dry_unit_weight * (gwl - previous_depth)
         + layer.saturated_unit_weight * (layer_thickness - (gwl - previous_depth))

(* The loop with total_stress assigned, not added to, in each iteration.   *)
RECURSIVE StressLoop_assign(_, _, _, _, _, _, _)
StressLoop_assign(h, p, depth, layer_index, i, total_stress, previous_depth) ==
    IF i > layer_index THEN total_stress
    ELSE LET layer == h[p.layers[i + 1]]
             layer_thickness == IF i = layer_index THEN depth - previous_depth
                                ELSE layer.thickness
         IN  StressLoop_assign(h, p, depth, layer_index, i + 1,
                               StressIncrement(layer, p.ground_water_level,
                                               previous_depth, layer_thickness),
                               previous_depth + layer_thickness)

(* The loop of calc_normal_stress over the 0-based layers i..layer_index.  *)
RECURSIVE StressLoop(_, _, _, _, _, _, _)
StressLoop(h, p, depth, layer_index, i, total_stress, previous_depth) ==
    IF i > layer_index THEN total_stress
    ELSE LET layer == h[p.layers[i + 1]]
             layer_thickness == IF i = layer_index THEN depth - previous_depth
                                ELSE layer.thickness
         IN  StressLoop(h, p, depth, layer_index, i + 1,
                        total_stress + StressIncrement(layer, p.ground_water_level,
                                                       previous_depth, layer_thickness),
                        previous_depth + layer_thickness)

calc_normal_stress(h, p, depth) ==
    StressLoop(h, p, depth, get_layer_index(h, p, depth), 0, 0, 0)

(* calc_effective_stress with the result clamped at 0.                     *)
calc_effective_stress_clamped(h, p, depth) ==
    LET value == IF p.ground_water_level >= depth
                 THEN calc_normal_stress(h, p, depth)
                 ELSE calc_normal_stress(h, p, depth)
                      - (depth - p.ground_water_level) * WaterUnitWeight
    IN  IF value < 0 THEN 0 ELSE value

calc_effective_stress(h, p, depth) ==
    IF p.ground_water_level >= depth
    THEN calc_normal_stress(h, p, depth)
    ELSE calc_normal_stress(h, p, depth) - (depth - p.ground_water_level) * WaterUnitWeight

-----------------------------------------------------------------------------
(* The operations of the stress model.                                     *)

(* The layer objects no profile holds, in the order they were created: the *)
(* list a caller of this specification hands to SoilProfile.               *)
RECURSIVE Unowned(_, _, _)
Unowned(h, ps, id) ==
    IF id > Len(h) THEN <<>>
    ELSE IF \E k \in 1..Len(ps) : \E i \in 1..Len(ps[k].layers) : ps[k].layers[i] = id
    THEN Unowned(h, ps, id + 1)
    ELSE <<id>> \o Unowned(h, ps, id + 1)

(* SoilLayer(...): a new layer object.                                     *)
NewLayer(layer) ==
    /\ Len(heap) < MaxLayers
    /\ heap' = Append(heap, layer)
    /\ ret' = [op |-> "SoilLayer", id |-> Len(heap) + 1]
    /\ UNCHANGED <<profiles, log>>

(* SoilProfile(layers, ground_water_level).                                *)
Construct(ids, gwl) ==
    LET r == SoilProfileInit(heap, ids)
    IN  /\ heap' = r.heap
        /\ profiles' = IF r.error = "ok"
                       THEN Append(profiles, [layers |-> ids, ground_water_level |-> gwl])
                       ELSE profiles
        /\ ret' = [op |-> "SoilProfile", layers |-> ids, error |-> r.error, trace |-> r.trace,
                   before |-> heap]
        /\ UNCHANGED log

GetLayerIndex(k, depth) ==
    /\ ret' = [op |-> "get_layer_index", profile |-> k, depth |-> depth,
               value |-> get_layer_index(heap, profiles[k], depth)]
    /\ UNCHANGED <<heap, profiles, log>>

CalcNormalStress(k, depth) ==
    /\ ret' = [op |-> "calc_normal_stress", profile |-> k, depth |-> depth,
               value |-> calc_normal_stress(heap, profiles[k], depth)]
    /\ UNCHANGED <<heap, profiles, log>>

CalcEffectiveStress(k, depth) ==
    /\ ret' = [op |-> "calc_effective_stress", profile |-> k, depth |-> depth,
               value |-> calc_effective_stress(heap, profiles[k], depth)]
    /\ UNCHANGED <<heap, profiles, log>>

Init ==
    /\ heap = <<>>
    /\ profiles = <<>>
    /\ log = NoLog
    /\ ret = NoCall

(* The stress specification builds one profile, from the layers created   *)
(* so far, and then queries it.                                            *)
Next ==
    \/ \E layer \in LayerInputs :
          /\ profiles = <<>>
          /\ NewLayer(layer)
    \/ \E gwl \in GroundWaterLevels :
          /\ profiles = <<>>
          /\ Construct(Unowned(heap, profiles, 1), gwl)
    \/ \E k \in 1..Len(profiles), depth \in QueryDepths : GetLayerIndex(k, depth)
    \/ \E k \in 1..Len(profiles), depth \in QueryDepths : CalcNormalStress(k, depth)
    \/ \E k \in 1..Len(profiles), depth \in QueryDepths : CalcEffectiveStress(k, depth)

Spec == Init /\ [][Next]_vars

-----------------------------------------------------------------------------
(* Experiment logs: CPTLog, MASWLog and SPT.                               *)

MaxExps == 3            \* records in a log

CPTExp(depth, cone_resistance) == [depth |-> depth, cone_resistance |-> cone_resistance]

MASWExp(depth, shear_wave_velocity) ==
    [depth |-> depth, shear_wave_velocity |-> shear_wave_velocity]

SptExp(depth, n, n90, n160, n160f) ==
    [depth |-> depth, n |-> n, n60 |-> 0, n90 |-> n90, n160 |-> n160, n160f |-> n160f]

(* The depths of the records a caller logs: 1 m, 2 m, 7 m and 22 m.        *)
ExpDepths == {2, 4, 14, 44}

ExpInputs(kind) ==
    IF kind = "CPT" THEN {CPTExp(d, 50) : d \in ExpDepths}
    ELSE IF kind = "MASW" THEN {MASWExp(d, v) : d \in ExpDepths, v \in {100, 400}}
    ELSE {SptExp(d, 10, 10, 12, 15) : d \in ExpDepths}

(* The logs of at most MaxExps records, sorted ascending by depth, one     *)
(* record per depth.                                                       *)
LogInputs(kind) ==
    {exps \in UNION {[1..n -> ExpInputs(kind)] : n \in 0..MaxExps} :
        \A i \in 1..(Len(exps) - 1) : exps[i].depth < exps[i + 1].depth}

(* get_exp_at_depth of CPTLog and of MASWLog (the same code): the error    *)
(* raised or "ok", and the record returned. Python's exps[i - 1] with      *)
(* i = 0 is exps[-1], the last record; exps[-1] of an empty list raises.   *)
get_exp_at_depth(exps, depth) ==
    IF \E i \in 1..Len(exps) : exps[i].depth >= depth
    THEN LET i == CHOOSE i \in 1..Len(exps) :
                     /\ exps[i].depth >= depth
                     /\ \A j \in 1..(i - 1) : ~(exps[j].depth >= depth)
         IN  [error |-> "ok", exp |-> IF i = 1 THEN exps[Len(exps)] ELSE exps[i - 1]]
    ELSE IF exps = <<>>
    THEN [error |-> "IndexError"]
    ELSE [error |-> "ok", exp |-> exps[Len(exps)]]

(* sum(exp.n for exp in exps)                                              *)
RECURSIVE SumN(_, _)
SumN(exps, i) == IF i = 0 THEN 0 ELSE SumN(exps, i - 1) + exps[i].n

(* SPT.calc_average_n: int(sum / len), the counts being non-negative.      *)
calc_average_n(exps) ==
    IF exps = <<>> THEN [error |-> "ZeroDivisionError"]
    ELSE [error |-> "ok", value |-> SumN(exps, Len(exps)) \div Len(exps)]

-----------------------------------------------------------------------------
(* Helpers of the pipelines.                                               *)

(* a / b <= c / d for a, c >= 0 and b, d > 0, by the integer parts and     *)
(* then the remainders (the continued fractions of the two).               *)
RECURSIVE RatLeq(_, _, _, _)
RatLeq(a, b, c, d) ==
    IF a \div b # c \div d THEN a \div b < c \div d
    ELSE IF a % b = 0 THEN TRUE
    ELSE IF c % d = 0 THEN FALSE
    ELSE RatLeq(d, c % d, b, a % b)

(* An attribute read, obj.name: AttributeError when the object has no such *)
(* attribute.                                                              *)
GetAttr(obj, name) ==
    IF name \in DOMAIN obj THEN [error |-> "ok", value |-> obj[name]]
    ELSE [error |-> "AttributeError"]

(* A local variable assigned once and read several times: the value is    *)
(* computed where it is assigned, as Python does.                          *)
Bind(value, Body(_)) == Body(value)

(* The elements of a finite set of numbers in ascending order: sorted().   *)
RECURSIVE Sorted(_)
Sorted(S) ==
    IF S = {} THEN <<>>
    ELSE LET m == CHOOSE x \in S : \A y \in S : x <= y
         IN  <<m>> \o Sorted(S \ {m})

(* get_all_depths: sorted(list(set(layer_depths + exp_depths)))            *)
get_all_depths(h, p, exps) ==
    Sorted({h[p.layers[i]].depth : i \in 1..Len(p.layers)}
           \cup {exps[i].depth : i \in 1..Len(exps)})

(* The tables of LiquefactionSettlement.                                   *)
q_list == <<33, 45, 60, 80, 147, 200>>
relative_densities == <<30, 40, 50, 60, 70, 80, 90>>

(* np.interp(x, xp, fp)[0] as far as its outcome goes: np.interp raises    *)
(* ValueError when xp and fp differ in length, and the [0] applied to the  *)
(* scalar it returns for a scalar x raises IndexError.                     *)
interp_item0_error(xp, fp) ==
    IF Len(xp) # Len(fp) THEN "ValueError" ELSE "IndexError"

(* dr_to_qci: the error it raises.                                         *)
dr_to_qci_error == interp_item0_error(relative_densities, q_list)

(* MASW calc_vs1c, doubled (fine_content is a whole percentage).           *)
calc_vs1c_x2(fine_content) ==
    IF fine_content <= 5 THEN 430
    ELSE IF fine_content <= 35 THEN 430 - (fine_content - 5)
    ELSE 400

(* MASW: vs1 >= vs1c, with vs1 = vs * cn and                               *)
(* cn = min(1.7, 3.16 * (1 / effective_stress) ** 0.5), for an effective   *)
(* stress > 0 (es, in 1/2000 t/m^2) and vs > 0.                            *)
(*   cn = 1.7 iff 3.16^2 / (es / 2000) >= 1.7^2 iff 1997120 >= 289 es;     *)
(*   then vs1 >= vs1c iff 17 * 2 vs >= 10 vs1c_x2;                         *)
(*   else vs1 >= vs1c iff (3.16 vs)^2 >= vs1c^2 * es / 2000                *)
(*                    iff 5 vs1c_x2^2 / vs^2 <= 399424 / es.               *)
vs1_reaches_vs1c(vs, es, vs1c_x2) ==
    IF 1997120 >= 289 * es
    THEN 34 * vs >= 10 * vs1c_x2
    ELSE RatLeq(5 * vs1c_x2 * vs1c_x2, vs * vs, 399424, es)

-----------------------------------------------------------------------------
(* The stress reduction factor rd of the SPT and MASW pipelines. The depth *)
(* is in centimetres (9.15 m = 915) and rd in units of 1e-7, which makes   *)
(* each branch exact: 1 - 0.00765 * depth = (10000000 - 765 * cm) * 1e-7.  *)

hf_calc_rd_open_at_915(depth) ==
    IF depth < 915 THEN 10000000 - 765 * depth
    ELSE IF 915 <= depth /\ depth < 2300 THEN 11740000 - 2670 * depth
    ELSE IF 2300 <= depth /\ depth < 3000 THEN 7440000 - 800 * depth
    ELSE 5000000

(* helper_functions.calc_rd                                                *)
hf_calc_rd(depth) ==
    IF depth <= 915 THEN 10000000 - 765 * depth
    ELSE IF 915 < depth /\ depth < 2300 THEN 11740000 - 2670 * depth
    ELSE IF 2300 <= depth /\ depth < 3000 THEN 7440000 - 800 * depth
    ELSE 5000000

(* spt.idriss.calc_rd, a second copy of the same code.                     *)
spt_calc_rd(depth) ==
    IF depth <= 915 THEN 10000000 - 765 * depth
    ELSE IF 915 < depth /\ depth < 2300 THEN 11740000 - 2670 * depth
    ELSE IF 2300 <= depth /\ depth < 3000 THEN 7440000 - 800 * depth
    ELSE 5000000

-----------------------------------------------------------------------------
(* Floats other than depths, stresses and rd are fixed-point decimals with *)
(* five places: 1.1 is 110000. A product or a quotient is cut to five      *)
(* places as a float operation is rounded to its precision.                *)

Scale == 100000

Abs(x) == IF x < 0 THEN -x ELSE x

Sgn(x) == IF x < 0 THEN -1 ELSE 1

(* x * y / Scale for 0 <= x, y < Scale, x being split at its thousands so  *)
(* that no intermediate product leaves 32 bits.                            *)
FMulLow(x, y) ==
    ((x \div 1000) * y) \div 100
    + ((((x \div 1000) * y) % 100) * 1000 + (x % 1000) * y) \div Scale

(* a * b / Scale for a, b >= 0, by the whole and fractional parts of the   *)
(* two.                                                                    *)
FMulNat(a, b) ==
    (a \div Scale) * (b \div Scale) * Scale
    + (a \div Scale) * (b % Scale)
    + (a % Scale) * (b \div Scale)
    + FMulLow(a % Scale, b % Scale)

(* x * y                                                                   *)
FMul(a, b) == Sgn(a) * Sgn(b) * FMulNat(Abs(a), Abs(b))

(* The decimal places of r / b for 0 <= r < b, from place value `place`.   *)
RECURSIVE FDivPlaces(_, _, _)
FDivPlaces(r, b, place) ==
    IF place = 0 THEN 0
    ELSE ((r * 10) \div b) * place + FDivPlaces((r * 10) % b, b, place \div 10)

(* x / y for y # 0 (a zero divisor is the caller's ZeroDivisionError).     *)
FDiv(a, b) ==
    Sgn(a) * Sgn(b)
    * ((Abs(a) \div Abs(b)) * Scale + FDivPlaces(Abs(a) % Abs(b), Abs(b), Scale \div 10))

(* ln 2                                                                    *)
Ln2 == 69315

(* z + z^3 / 3 + z^5 / 5 + ... from the term zpow = z^n on, for |z| <= 1/3 *)
RECURSIVE AtanhSum(_, _, _)
AtanhSum(zpow, z2, n) ==
    IF zpow = 0 THEN 0
    ELSE zpow \div n + AtanhSum(FMul(zpow, z2), z2, n + 2)

(* math.log(x) for x > 0: x is halved or doubled into [1, 2), where        *)
(* ln x = 2 atanh((x - 1) / (x + 1)).                                      *)
RECURSIVE FLn(_)
FLn(x) ==
    IF x >= 2 * Scale THEN Ln2 + FLn(x \div 2)
    ELSE IF x < Scale THEN FLn(2 * x) - Ln2
    ELSE LET z == FDiv(x - Scale, x + Scale)
         IN  2 * AtanhSum(z, FMul(z, z), 1)

(* 1 + r + r^2 / 2! + ... from the term r^(n-1) / (n-1)! on, 0 <= r < ln 2 *)
RECURSIVE ExpSum(_, _, _)
ExpSum(term, r, n) ==
    IF term = 0 THEN 0
    ELSE term + ExpSum(FMul(term, r) \div n, r, n + 1)

(* math.exp(x): x is brought into [0, ln 2) by steps of ln 2; below -12    *)
(* the value has no digit in five places.                                  *)
RECURSIVE FExp(_)
FExp(x) ==
    IF x <= -12 * Scale THEN 0
    ELSE IF x >= Ln2 THEN 2 * FExp(x - Ln2)
    ELSE IF x < 0 THEN FExp(x + Ln2) \div 2
    ELSE ExpSum(Scale, x, 1)

(* x ** y and math.pow(x, y) for x >= 0 (0 ** y is 0 for y > 0).           *)
FPow(x, y) ==
    IF x = 0 THEN (IF y = 0 THEN Scale ELSE 0)
    ELSE FExp(FMul(y, FLn(x)))

(* pi                                                                      *)
Pi == 314159

(* x - x^3 / 3! + x^5 / 5! - ... from the term of x^n on, for |x| <= pi/2  *)
RECURSIVE SinSum(_, _, _)
SinSum(term, x2, n) ==
    IF term = 0 THEN 0
    ELSE term + SinSum((0 - FMul(term, x2)) \div ((n + 1) * (n + 2)), x2, n + 2)

(* math.sin(x): x is brought into [-pi/2, pi/2] by the period and by       *)
(* sin(pi - x) = sin(x).                                                   *)
RECURSIVE FSin(_)
FSin(x) ==
    IF x > Pi THEN FSin(x - 2 * Pi)
    ELSE IF x < 0 - Pi THEN FSin(x + 2 * Pi)
    ELSE IF 2 * x > Pi THEN FSin(Pi - x)
    ELSE IF 2 * x < 0 - Pi THEN FSin(0 - Pi - x)
    ELSE SinSum(x, FMul(x, x), 1)

-----------------------------------------------------------------------------
(* The safety verdicts. Depth and water table in half metres, the safety   *)
(* factor and its limit in fixed point.                                    *)

hf_check_safety_strict(h, p, depth, safety_factor, limit_safety_factor) ==
    \/ safety_factor > limit_safety_factor
    \/ p.ground_water_level > depth
    \/ get_layer_at_depth(h, p, depth).plasticity_index > 12

(* helper_functions.check_safety                                           *)
hf_check_safety(h, p, depth, safety_factor, limit_safety_factor) ==
    LET gwt == p.ground_water_level
        layer == get_layer_at_depth(h, p, depth)
        plasticity == layer.plasticity_index
    IN  safety_factor >= limit_safety_factor \/ gwt > depth \/ plasticity > 12

(* spt.idriss.check_safety                                                 *)
spt_check_safety(gwt, plasticity_index, safety_factor, limit_safety_factor, depth, n160, n160f) ==
    \/ safety_factor >= limit_safety_factor
    \/ gwt > depth
    \/ plasticity_index > 12
    \/ n160 >= 30
    \/ n160f >= 34

-----------------------------------------------------------------------------
(* The cyclic resistance ratio of the SPT module. n160f is a whole blow    *)
(* count (the signature's int), effective_stress and MSF are fixed point.  *)

spt_calc_crr_raises_from_33(n160f, effective_stress, MSF) ==
    IF n160f >= 33 THEN [error |-> "ValueError"]
    ELSE [error |-> "ok", crr75 |-> 0, crr |-> 0]

(* spt.idriss.calc_crr: the error raised or "ok", and the pair returned.   *)
spt_calc_crr(n160f, effective_stress, MSF) ==
    IF n160f >= 34 THEN [error |-> "ValueError"]
    ELSE LET crr75 == FMul(effective_stress,
                           FDiv(1, 34 - n160f)
                           + FDiv(n160f, 135)
                           + FDiv(50, (10 * n160f + 45) * (10 * n160f + 45))
                           - 500)
             crr == FMul(crr75, MSF)
         IN  [error |-> "ok", crr75 |-> crr75, crr |-> crr]

-----------------------------------------------------------------------------
(* The settlement estimators: LiquefactionSettlement (settlement_obj) and  *)
(* the SPT module's calc_settlement. Safety factor, tip resistance, strain *)
(* and settlement are fixed point, the layer thickness is fixed point in   *)
(* metres, n90 is a whole blow count.                                      *)

a0 == 37730
a1 == -3370
a2 == 156720
a3 == -18330
b0 == 2845000
b1 == -933720
b2 == 79750

n90_list == <<3, 6, 10, 14, 25, 30>>

Min(x, y) == IF x <= y THEN x ELSE y

Max(x, y) == IF x >= y THEN x ELSE y

(* np.interp(x, xp, fp) for a scalar x and tables of whole numbers:        *)
(* ValueError when the tables differ in length, the edge value outside the *)
(* table, slope * (x - xp[i]) + fp[i] inside it.                           *)
np_interp(x, xp, fp) ==
    IF Len(xp) # Len(fp) THEN [error |-> "ValueError"]
    ELSE IF x <= xp[1] * Scale THEN [error |-> "ok", value |-> fp[1] * Scale]
    ELSE IF x >= xp[Len(xp)] * Scale THEN [error |-> "ok", value |-> fp[Len(fp)] * Scale]
    ELSE LET i == CHOOSE j \in 1..(Len(xp) - 1) :
                      xp[j] * Scale <= x /\ x < xp[j + 1] * Scale
             slope == FDiv(fp[i + 1] - fp[i], xp[i + 1] - xp[i])
         IN  [error |-> "ok", value |-> FMul(slope, x - xp[i] * Scale) + fp[i] * Scale]

(* n90_to_qci: np.interp(n90, n90_list, q_list)[0]                         *)
n90_to_qci(n90) == [error |-> interp_item0_error(n90_list, q_list)]

(* calc_relative_density: 17.974 * (vs1c / 100) ** 1.976, vs1c >= 0        *)
calc_relative_density(vs1c) == FMul(1797400, FPow(FDiv(vs1c, 100 * Scale), 197600))

(* dr_to_qci: np.interp(relative_density, relative_densities, q_list)[0]   *)
dr_to_qci(relative_density) == [error |-> dr_to_qci_error]

calc_volumetric_strain_unblended(corrected_tip_resistance, safety_factor) ==
    IF safety_factor > 2 * Scale THEN [error |-> "ok", value |-> 0]
    ELSE IF corrected_tip_resistance <= 0 THEN [error |-> "ValueError"]
    ELSE LET lnq == FLn(corrected_tip_resistance)
         IN  [error |-> "ok", value |-> b0 + FMul(b1, lnq) + FMul(b2, FMul(lnq, lnq))]

(* calc_volumetric_strain with >= 2 for > 2 in its first branch: the       *)
(* strain is 0 from a safety factor of 2 on.                               *)
calc_volumetric_strain_zero_from_two(corrected_tip_resistance, safety_factor) ==
    IF safety_factor >= 2 * Scale THEN [error |-> "ok", value |-> 0]
    ELSE IF corrected_tip_resistance <= 0 THEN [error |-> "ValueError"]
    ELSE LET lnq == FLn(corrected_tip_resistance)
             d == a2 + FMul(a3, lnq)
             s2 == b0 + FMul(b1, lnq) + FMul(b2, FMul(lnq, lnq))
         IN  IF d = 0 THEN [error |-> "ZeroDivisionError"]
             ELSE IF 2 * Scale - FDiv(Scale, d) < safety_factor /\ safety_factor < 2 * Scale
             THEN LET e == FDiv(Scale, 2 * Scale - safety_factor) - d
                  IN  IF e = 0 THEN [error |-> "ZeroDivisionError"]
                      ELSE [error |-> "ok",
                            value |-> Min(FDiv(a0 + FMul(a1, lnq), e), s2)]
             ELSE [error |-> "ok", value |-> s2]

(* calc_volumetric_strain: math.log raises ValueError for a resistance     *)
(* <= 0, the divisions ZeroDivisionError for a zero divisor.               *)
calc_volumetric_strain(corrected_tip_resistance, safety_factor) ==
    IF safety_factor > 2 * Scale THEN [error |-> "ok", value |-> 0]
    ELSE IF corrected_tip_resistance <= 0 THEN [error |-> "ValueError"]
    ELSE LET lnq == FLn(corrected_tip_resistance)
             d == a2 + FMul(a3, lnq)
             s2 == b0 + FMul(b1, lnq) + FMul(b2, FMul(lnq, lnq))
         IN  IF d = 0 THEN [error |-> "ZeroDivisionError"]
             ELSE IF 2 * Scale - FDiv(Scale, d) < safety_factor /\ safety_factor < 2 * Scale
             THEN LET e == FDiv(Scale, 2 * Scale - safety_factor) - d
                  IN  IF e = 0 THEN [error |-> "ZeroDivisionError"]
                      ELSE [error |-> "ok",
                            value |-> Min(FDiv(a0 + FMul(a1, lnq), e), s2)]
             ELSE [error |-> "ok", value |-> s2]

(* settlement * layer_thickness, once the strain was computed.             *)
TimesThickness(strain, layer_thickness) ==
    IF strain.error # "ok" THEN strain
    ELSE [error |-> "ok", value |-> FMul(strain.value, layer_thickness)]

(* calc_settlement_via_n90: n90 is clamped to [3, 30] first.               *)
calc_settlement_via_n90(safety_factor, layer_thickness, n90) ==
    LET qci == n90_to_qci(Min(Max(n90, 3), 30))
    IN  IF qci.error # "ok" THEN qci
        ELSE TimesThickness(calc_volumetric_strain(qci.value, safety_factor), layer_thickness)

(* calc_settlement_via_vs1c: the relative density is clamped to [30, 90].  *)
calc_settlement_via_vs1c(safety_factor, layer_thickness, vs1c) ==
    LET relative_density == Min(Max(calc_relative_density(vs1c), 30 * Scale), 90 * Scale)
        qci == dr_to_qci(relative_density)
    IN  IF qci.error # "ok" THEN qci
        ELSE TimesThickness(calc_volumetric_strain(qci.value, safety_factor), layer_thickness)

(* calc_settlement_via_qci                                                 *)
calc_settlement_via_qci(safety_factor, layer_thickness, qci) ==
    TimesThickness(calc_volumetric_strain(qci, safety_factor), layer_thickness)

(* Steps 1 and 3 of spt.idriss.calc_settlement: the clamped n90 and        *)
(* float(np.interp(n90, n90_list, q_list)) over its own copy of the tables.*)
spt_settlement_q(n90) ==
    np_interp(Min(Max(n90, 3), 30) * Scale,
              <<3, 6, 10, 14, 25, 30>>, <<33, 45, 60, 80, 147, 200>>).value

(* spt.idriss.calc_settlement, with its own copy of the constants.         *)
spt_calc_settlement(safety_factor, layer_thickness, n90) ==
    LET q == spt_settlement_q(n90)
        lnq == FLn(q)
        d == 156720 + FMul(-18330, lnq)
        s2 == 2845000 + FMul(-933720, lnq) + FMul(79750, FMul(lnq, lnq))
        e == FDiv(Scale, 2 * Scale - safety_factor) - d
        strain == IF safety_factor > 2 * Scale THEN 0
                  ELSE IF 2 * Scale - FDiv(Scale, d) < safety_factor
                          /\ safety_factor < 2 * Scale
                  THEN Min(FDiv(37730 + FMul(-3370, lnq), e), s2)
                  ELSE s2
    IN  [error |-> "ok", value |-> FMul(strain, layer_thickness)]

-----------------------------------------------------------------------------
(* The functions of the CPT module (Boulanger and Idriss), all in fixed    *)
(* point: depth in metres, stresses in t/m^2, fine content in percent.     *)

(* helper_functions.calc_msf: (10 ** 2.24) / (Mw ** 2.56), Mw > 0          *)
hf_calc_msf(Mw) == FDiv(FPow(10 * Scale, 224000), FPow(Mw, 256000))

(* helper_functions.calc_csr: 0.65 * pga * normal_stress * rd              *)
hf_calc_csr(pga, normal_stress, rd) == FMul(FMul(FMul(65000, pga), normal_stress), rd)

(* (11.9 + qc1n / 14.6) * exp(1.63 - 9.7 / (fc + 2) - (15.7 / (fc + 2))^2) *)
(* the fines correction of calc_cn and of calc_qc1ncs.                     *)
FinesCorrection(qc1n, fine_content) ==
    FMul(1190000 + FDiv(qc1n, 1460000),
         FExp(163000 - FDiv(970000, fine_content + 2 * Scale)
              - FMul(FDiv(1570000, fine_content + 2 * Scale),
                     FDiv(1570000, fine_content + 2 * Scale))))

(* cpt calc_cn with the values of m of the calls it is nested in: a call   *)
(* whose m_new is the m of an enclosing call repeats that call's           *)
(* computation and never returns, which Python ends with RecursionError.   *)
RECURSIVE cpt_calc_cn_from(_, _, _, _, _)
cpt_calc_cn_from(m, qcn, effective_stress, fine_content, enclosing) ==
    LET es == Max(effective_stress, 10000)
        cn == FPow(FDiv(1013200, es), m)
        qc1n0 == FMul(qcn, cn)
        qc1ncs0 == qc1n0 + FinesCorrection(qc1n0, fine_content)
        m_new == 133800 - FMul(24900, FPow(qc1ncs0, 26400))
    IN  IF Abs(m_new - m) > 100
        THEN IF m_new \in enclosing \cup {m}
             THEN [error |-> "RecursionError"]
             ELSE cpt_calc_cn_from(m_new, qcn, es, fine_content, enclosing \cup {m})
        ELSE [error |-> "ok", value |-> Min(170000, FPow(FDiv(100 * Scale, es), m))]

(* cpt calc_cn                                                             *)
cpt_calc_cn(m, qcn, effective_stress, fine_content) ==
    cpt_calc_cn_from(m, qcn, effective_stress, fine_content, {})

(* cpt calc_qc1ncs                                                         *)
cpt_calc_qc1ncs(qcn, fine_content, cn) ==
    LET qc1n == FMul(cn, qcn)
        dqc1n == FinesCorrection(qc1n, fine_content)
    IN  Max(Min(qc1n + dqc1n, 254 * Scale), 21 * Scale)

(* cpt calc_rd                                                             *)
cpt_calc_rd(depth, mw) ==
    IF depth <= 34 * Scale
    THEN LET az == -101200 - FMul(112600, FSin(FDiv(depth, 1173000) + 513300))
             bz == 10600 + FMul(11800, FSin(FDiv(depth, 1128000) + 514200))
         IN  FExp(az + FMul(bz, mw))
    ELSE FMul(12000, FExp(FMul(22000, mw)))

(* cpt calc_msf: 1 + (msf_max - 1) * (8.64 * exp(-mw / 4) - 1.325) with    *)
(* msf_max = min(2.2, 1.09 + (qc1ncs / 180) ** 3). No function of the      *)
(* module calls it.                                                        *)
cpt_calc_msf(mw, qc1ncs) ==
    LET q == FDiv(qc1ncs, 180 * Scale)
        msf_max == Min(220000, 109000 + FMul(q, FMul(q, q)))
    IN  Scale + FMul(msf_max - Scale,
                     FMul(864000, FExp(-FDiv(mw, 4 * Scale))) - 132500)

(* cpt calc_cg, for the qc1ncs in [21, 254] that calc_qc1ncs returns       *)
cpt_calc_cg(qc1ncs) ==
    Min(30000, FDiv(Scale, 3730000 - FMul(827000, FPow(qc1ncs, 26400))))

(* cpt calc_kg: math.log raises ValueError for an effective stress <= 0    *)
cpt_calc_kg(cg, effective_stress) ==
    IF effective_stress <= 0 THEN [error |-> "ValueError"]
    ELSE [error |-> "ok",
          value |-> Min(110000, Scale - FMul(cg, FLn(FDiv(effective_stress, 10132000))))]

(* cpt calc_crr                                                            *)
cpt_calc_crr(kg, qc1ncs, msf, effective_stress) ==
    LET p2 == FMul(FDiv(qc1ncs, 1000 * Scale), FDiv(qc1ncs, 1000 * Scale))
        q3 == FDiv(qc1ncs, 140 * Scale)
        q4 == FDiv(qc1ncs, 137 * Scale)
        crr75 == FMul(FMul(kg, FExp(FDiv(qc1ncs, 113 * Scale) + p2
                                    - FMul(q3, FMul(q3, q3))
                                    + FMul(FMul(q4, q4), FMul(q4, q4))
                                    - 280000)),
                      effective_stress)
    IN  [crr75 |-> crr75, crr |-> FMul(msf, crr75)]

-----------------------------------------------------------------------------
(* The pipelines. The profile keeps depths in half metres and stresses in  *)
(* 1/2000 t/m^2; the analyses work on them in fixed point. A result record *)
(* holds the fields of the source's record; depth and exp are the depth    *)
(* analysed and the record that governed it, kept with the result to state *)
(* the claims. A call that raises after it computed the stress ratios      *)
(* keeps them as they were when it raised.                                 *)

(* A stress of the profile in fixed point.                                 *)
StressFixed(stress) == 50 * stress

(* A depth or thickness of the profile in fixed point, in metres.          *)
Metres(half_metres) == (Scale \div 2) * half_metres

(* rd of calc_rd in fixed point, for a depth of the profile.               *)
RdFixed(rd) == rd \div 100

(* The default of limit_safety_factor of the three analyse_for_layer.      *)
default_limit_safety_factor == 110000

(* The entries of a result record that the three pipelines share.          *)
ResultRecord(csr, crr75, crr, rd, safety_factor, normal_stress, effective_stress, is_safe, settlement) ==
    [CSR |-> csr, CRR75 |-> crr75, CRR |-> crr, rd |-> rd,
     safetyFactor |-> safety_factor, normalStress |-> normal_stress,
     effectiveStress |-> effective_stress, is_safe |-> is_safe,
     settlement |-> settlement]

cpt_analyse_for_layer_crr_over_csr(h, p, exp, depth, MSF, pga, Mw, limit_safety_factor) ==
    LET rd == cpt_calc_rd(Metres(depth), Mw)
        effective_stress == StressFixed(calc_effective_stress(h, p, depth))
        normal_stress == StressFixed(calc_normal_stress(h, p, depth))
        soil_layer == get_layer_at_depth(h, p, depth)
        fine_content == soil_layer.fine_content * Scale
        qcn == exp.cone_resistance * Scale
    IN  Bind(cpt_calc_cn(Scale \div 2, qcn, effective_stress, fine_content), LAMBDA cn :
        IF cn.error # "ok" THEN [error |-> cn.error]
        ELSE
        Bind(cpt_calc_qc1ncs(qcn, fine_content, cn.value), LAMBDA qc1ncs :
        Bind(cpt_calc_kg(cpt_calc_cg(qc1ncs), effective_stress), LAMBDA kg :
        IF kg.error # "ok" THEN [error |-> kg.error]
        ELSE
        Bind(hf_calc_csr(pga, normal_stress, rd), LAMBDA csr :
        Bind(cpt_calc_crr(kg.value, qc1ncs, MSF, effective_stress), LAMBDA c :
        IF csr = 0
        THEN [error |-> "ZeroDivisionError", CSR |-> csr, CRR |-> c.crr]
        ELSE
        Bind(FDiv(c.crr, csr), LAMBDA safety_factor :
        Bind(calc_settlement_via_qci(safety_factor, Metres(soil_layer.thickness), qc1ncs),
             LAMBDA settlement :
        IF settlement.error # "ok"
        THEN [error |-> settlement.error, CSR |-> csr, CRR |-> c.crr,
              safetyFactor |-> safety_factor]
        ELSE [error |-> "ok",
              value |-> [depth |-> depth, exp |-> exp]
                        @@ ResultRecord(csr, c.crr75, c.crr, rd, safety_factor,
                                        normal_stress, effective_stress,
                                        hf_check_safety(h, p, depth, safety_factor,
                                                        limit_safety_factor),
                                        settlement.value)])))))))

(* CPT analyse_for_layer: calc_cn may not converge (RecursionError),       *)
(* calc_kg takes math.log(effective_stress / 101.32), a ValueError for an  *)
(* effective stress <= 0, and csr / crr divides by crr.                    *)
cpt_analyse_for_layer(h, p, exp, depth, MSF, pga, Mw, limit_safety_factor) ==
    LET rd == cpt_calc_rd(Metres(depth), Mw)
        effective_stress == StressFixed(calc_effective_stress(h, p, depth))
        normal_stress == StressFixed(calc_normal_stress(h, p, depth))
        soil_layer == get_layer_at_depth(h, p, depth)
        fine_content == soil_layer.fine_content * Scale
        qcn == exp.cone_resistance * Scale
    IN  Bind(cpt_calc_cn(Scale \div 2, qcn, effective_stress, fine_content), LAMBDA cn :
        IF cn.error # "ok" THEN [error |-> cn.error]
        ELSE
        Bind(cpt_calc_qc1ncs(qcn, fine_content, cn.value), LAMBDA qc1ncs :
        Bind(cpt_calc_kg(cpt_calc_cg(qc1ncs), effective_stress), LAMBDA kg :
        IF kg.error # "ok" THEN [error |-> kg.error]
        ELSE
        Bind(hf_calc_csr(pga, normal_stress, rd), LAMBDA csr :
        Bind(cpt_calc_crr(kg.value, qc1ncs, MSF, effective_stress), LAMBDA c :
        IF c.crr = 0
        THEN [error |-> "ZeroDivisionError", CSR |-> csr, CRR |-> c.crr]
        ELSE
        Bind(FDiv(csr, c.crr), LAMBDA safety_factor :
        Bind(calc_settlement_via_qci(safety_factor, Metres(soil_layer.thickness), qc1ncs),
             LAMBDA settlement :
        IF settlement.error # "ok"
        THEN [error |-> settlement.error, CSR |-> csr, CRR |-> c.crr,
              safetyFactor |-> safety_factor]
        ELSE [error |-> "ok",
              value |-> [depth |-> depth, exp |-> exp]
                        @@ ResultRecord(csr, c.crr75, c.crr, rd, safety_factor,
                                        normal_stress, effective_stress,
                                        hf_check_safety(h, p, depth, safety_factor,
                                                        limit_safety_factor),
                                        settlement.value)])))))))

(* masw calc_cn, for an effective stress > 0                               *)
masw_calc_cn(effective_stress) ==
    Min(170000, FMul(316000, FPow(FDiv(Scale, effective_stress), Scale \div 2)))

(* masw calc_crr                                                           *)
masw_calc_crr(vs1, vs1c, effective_stress, MSF) ==
    LET crr75 == FMul(effective_stress,
                      FMul(3000, FMul(FDiv(vs1, 100 * Scale), FDiv(vs1, 100 * Scale)))
                      + FMul(9000, vs1c - vs1) - FDiv(9000, vs1c))
    IN  [crr75 |-> crr75, crr |-> FMul(crr75, MSF)]

masw_analyse_for_layer_verdict_by_check(h, p, exp, depth, MSF, pga, limit_safety_factor) ==
    LET soil_layer == get_layer_at_depth(h, p, depth)
        rd == RdFixed(hf_calc_rd(50 * soil_layer.depth))
        effective_stress == StressFixed(calc_effective_stress(h, p, depth))
        normal_stress == StressFixed(calc_normal_stress(h, p, depth))
        vs1c_x2 == calc_vs1c_x2(soil_layer.fine_content)
        vs1c == (Scale \div 2) * vs1c_x2
        vs1 == FMul(exp.shear_wave_velocity * Scale, masw_calc_cn(effective_stress))
        csr == hf_calc_csr(pga, normal_stress, rd)
        c == masw_calc_crr(vs1, vs1c, effective_stress, MSF)
        safety_factor == FDiv(c.crr, csr)
        is_safe == hf_check_safety(h, p, depth, safety_factor, limit_safety_factor)
        settlement == calc_settlement_via_vs1c(safety_factor, Metres(soil_layer.thickness),
                                               vs1c)
    IN  IF effective_stress = 0 THEN [error |-> "ZeroDivisionError"]   \* 1 / effective_stress
        ELSE IF effective_stress < 0 THEN [error |-> "TypeError"]      \* min(1.7, a complex)
        ELSE IF vs1_reaches_vs1c(exp.shear_wave_velocity,
                                 calc_effective_stress(h, p, depth), vs1c_x2)
        THEN [error |-> "ok",
              value |-> [depth |-> depth, exp |-> exp]
                        @@ ResultRecord(csr, 0, 0, rd, 0, normal_stress, effective_stress,
                                        hf_check_safety(h, p, depth, 0, limit_safety_factor),
                                        0)]
        ELSE IF csr = 0
        THEN [error |-> "ZeroDivisionError", CSR |-> csr, CRR |-> c.crr]
        ELSE IF settlement.error # "ok"
        THEN [error |-> settlement.error, CSR |-> csr, CRR |-> c.crr,
              safetyFactor |-> safety_factor]
        ELSE [error |-> "ok",
              value |-> [depth |-> depth, exp |-> exp]
                        @@ ResultRecord(csr, c.crr75, c.crr, rd, safety_factor,
                                        normal_stress, effective_stress, is_safe,
                                        settlement.value)]

(* MASW analyse_for_layer. rd is taken at soil_layer.depth. vs1 >= vs1c is *)
(* decided exactly (vs1_reaches_vs1c); the vs1 that calc_crr takes is the  *)
(* fixed point one.                                                        *)
masw_analyse_for_layer(h, p, exp, depth, MSF, pga, limit_safety_factor) ==
    LET soil_layer == get_layer_at_depth(h, p, depth)
        rd == RdFixed(hf_calc_rd(50 * soil_layer.depth))
        effective_stress == StressFixed(calc_effective_stress(h, p, depth))
        normal_stress == StressFixed(calc_normal_stress(h, p, depth))
        vs1c_x2 == calc_vs1c_x2(soil_layer.fine_content)
        vs1c == (Scale \div 2) * vs1c_x2
        vs1 == FMul(exp.shear_wave_velocity * Scale, masw_calc_cn(effective_stress))
        csr == hf_calc_csr(pga, normal_stress, rd)
        c == masw_calc_crr(vs1, vs1c, effective_stress, MSF)
        safety_factor == FDiv(c.crr, csr)
        is_safe == hf_check_safety(h, p, depth, safety_factor, limit_safety_factor)
        settlement == calc_settlement_via_vs1c(safety_factor, Metres(soil_layer.thickness),
                                               vs1c)
    IN  IF effective_stress = 0 THEN [error |-> "ZeroDivisionError"]   \* 1 / effective_stress
        ELSE IF effective_stress < 0 THEN [error |-> "TypeError"]      \* min(1.7, a complex)
        ELSE IF vs1_reaches_vs1c(exp.shear_wave_velocity,
                                 calc_effective_stress(h, p, depth), vs1c_x2)
        THEN [error |-> "ok",
              value |-> [depth |-> depth, exp |-> exp]
                        @@ ResultRecord(csr, 0, 0, rd, 0, normal_stress, effective_stress,
                                        TRUE, 0)]
        ELSE IF csr = 0
        THEN [error |-> "ZeroDivisionError", CSR |-> csr, CRR |-> c.crr]
        ELSE IF settlement.error # "ok"
        THEN [error |-> settlement.error, CSR |-> csr, CRR |-> c.crr,
              safetyFactor |-> safety_factor]
        ELSE [error |-> "ok",
              value |-> [depth |-> depth, exp |-> exp]
                        @@ ResultRecord(csr, c.crr75, c.crr, rd, safety_factor,
                                        normal_stress, effective_stress, is_safe,
                                        settlement.value)]

(* SPT analyse_for_layer, its stresses in fixed point: calc_crr raises for *)
(* n160f >= 34, and crr / csr divides by csr.                              *)
spt_analyse_for_layer(gwt, effective_stress, normal_stress, soil_layer, exp, MSF, pga, limit_safety_factor) ==
    LET depth == exp.depth
        rd == RdFixed(spt_calc_rd(50 * depth))
        csr == FMul(FMul(FMul(65000, pga), normal_stress), rd)
        c == spt_calc_crr(exp.n160f, effective_stress, MSF)
        safety_factor == FDiv(c.crr, csr)
        is_safe == spt_check_safety(gwt, soil_layer.plasticity_index, safety_factor,
                                    limit_safety_factor, depth, exp.n160, exp.n160f)
        settlement == spt_calc_settlement(safety_factor, Metres(soil_layer.thickness),
                                          exp.n90)
    IN  IF c.error # "ok" THEN [error |-> c.error, CSR |-> csr]
        ELSE IF csr = 0 THEN [error |-> "ZeroDivisionError", CSR |-> csr, CRR |-> c.crr]
        ELSE [error |-> "ok",
              value |-> [depth |-> depth, exp |-> exp]
                        @@ ResultRecord(csr, c.crr75, c.crr, rd, safety_factor,
                                        normal_stress, effective_stress, is_safe,
                                        settlement.value)]

(* The loop of the CPT and MASW analyse_liquefaction over unique_depths    *)
(* from position i on: the first error of get_exp_at_depth or of           *)
(* analyse_for_layer ends the call; otherwise the result is appended.      *)
RECURSIVE AnalyseLoop(_, _, _, _, _, _, _, _, _, _)
AnalyseLoop(kind, h, p, exps, MSF, pga, Mw, unique_depths, i, results) ==
    IF i > Len(unique_depths) THEN [error |-> "ok", value |-> results]
    ELSE LET depth == unique_depths[i]
             e == get_exp_at_depth(exps, depth)
         IN  Bind(IF e.error # "ok" THEN e
                  ELSE IF kind = "CPT"
                  THEN cpt_analyse_for_layer(h, p, e.exp, depth, MSF, pga, Mw,
                                             default_limit_safety_factor)
                  ELSE masw_analyse_for_layer(h, p, e.exp, depth, MSF, pga,
                                              default_limit_safety_factor),
                  LAMBDA r :
             IF r.error # "ok" THEN [error |-> r.error, at |-> depth]
             ELSE AnalyseLoop(kind, h, p, exps, MSF, pga, Mw, unique_depths, i + 1,
                              Append(results, r.value)))

(* CPT and MASW analyse_liquefaction. Mw is above 0 (hf.calc_msf divides   *)
(* by Mw ** 2.56).                                                         *)
analyse_liquefaction(kind, h, p, exps, Mw, pga) ==
    AnalyseLoop(kind, h, p, exps, hf_calc_msf(Mw), pga, Mw,
                get_all_depths(h, p, exps), 1, <<>>)

(* The loop of the SPT analyse_liquefaction over spt_log.exps.             *)
RECURSIVE SptLoop(_, _, _, _, _, _, _, _)
SptLoop(h, p, gwt, exps, MSF, pga, i, results) ==
    IF i > Len(exps) THEN [error |-> "ok", value |-> results]
    ELSE LET exp == exps[i]
             r == spt_analyse_for_layer(gwt,
                                        StressFixed(calc_effective_stress(h, p, exp.depth)),
                                        StressFixed(calc_normal_stress(h, p, exp.depth)),
                                        get_layer_at_depth(h, p, exp.depth), exp, MSF, pga,
                                        default_limit_safety_factor)
         IN  IF r.error # "ok" THEN [error |-> r.error, at |-> exp.depth]
             ELSE SptLoop(h, p, gwt, exps, MSF, pga, i + 1, Append(results, r.value))

(* SPT analyse_liquefaction: it reads soil_profile.ground_water_table      *)
(* before the loop. Mw is above 0.                                         *)
spt_analyse_liquefaction(h, p, exps, Mw, pga) ==
    LET MSF == FDiv(FPow(10 * Scale, 224000), FPow(Mw, 256000))
        gwt == GetAttr(p, "ground_water_table")
    IN  IF gwt.error # "ok" THEN [error |-> gwt.error, at |-> "ground_water_table"]
        ELSE SptLoop(h, p, gwt.value, exps, MSF, pga, 1, <<>>)

-----------------------------------------------------------------------------
(* The operations on a log and the entry points.                           *)

(* CPTLog(exps), MASWLog(exps), SPT(exps): SPT computes average_n.         *)
NewLog(kind, exps) ==
    /\ log = NoLog
    /\ IF kind = "SPT"
       THEN LET a == calc_average_n(exps)
            IN  /\ log' = IF a.error = "ok"
                          THEN [kind |-> kind, exps |-> exps, average_n |-> a.value]
                          ELSE log
                /\ ret' = [op |-> "SPT", error |-> a.error]
       ELSE /\ log' = [kind |-> kind, exps |-> exps]
            /\ ret' = [op |-> kind \o "Log", error |-> "ok"]
    /\ UNCHANGED <<heap, profiles>>

GetExpAtDepth(depth) ==
    /\ log.kind \in {"CPT", "MASW"}
    /\ ret' = [op |-> "get_exp_at_depth", depth |-> depth]
              @@ get_exp_at_depth(log.exps, depth)
    /\ UNCHANGED <<heap, profiles, log>>

(* analyse_liquefaction reading the log as a queue it empties: the first   *)
(* record is gone after the call.                                          *)
AnalyseLiquefaction_consuming_log(k, Mw, pga) ==
    /\ log.kind \in {"CPT", "MASW"}
    /\ ret' = [op |-> "analyse_liquefaction", kind |-> log.kind, profile |-> k,
               Mw |-> Mw, pga |-> pga]
              @@ analyse_liquefaction(log.kind, heap, profiles[k], log.exps, Mw, pga)
    /\ log' = IF log.exps = <<>> THEN log ELSE [log EXCEPT !.exps = Tail(@)]
    /\ UNCHANGED <<heap, profiles>>

AnalyseLiquefaction(k, Mw, pga) ==
    /\ log.kind \in {"CPT", "MASW"}
    /\ ret' = [op |-> "analyse_liquefaction", kind |-> log.kind, profile |-> k,
               Mw |-> Mw, pga |-> pga]
              @@ analyse_liquefaction(log.kind, heap, profiles[k], log.exps, Mw, pga)
    /\ UNCHANGED <<heap, profiles, log>>

SptAnalyseLiquefaction(k, Mw, pga) ==
    /\ log.kind = "SPT"
    /\ ret' = [op |-> "analyse_liquefaction", kind |-> "SPT", profile |-> k,
               Mw |-> Mw, pga |-> pga]
              @@ spt_analyse_liquefaction(heap, profiles[k], log.exps, Mw, pga)
    /\ UNCHANGED <<heap, profiles, log>>

(* The profiles the pipelines are run on, as their construction leaves     *)
(* them: thicknesses of 2, 5 and 15 m over a water table at 1 m, sand with *)
(* few and with many fines; two layers of 2 m under water, the lower one   *)
(* lighter than water; one dry layer; and two layers with a plasticity     *)
(* index of 12 and of 13 under a water table at 2 m.                       *)
ProfileInputs ==
    { [layers |-> <<SoilLayer(4, 1600, 1800, 0, 0, 0, 0),
                    SoilLayer(10, 1600, 1800, 0, 0, 0, 20),
                    SoilLayer(30, 1600, 1800, 0, 0, 15, 40)>>,
       ground_water_level |-> 2],
      [layers |-> <<SoilLayer(4, 1800, 2000, 0, 0, 0, 0),
                    SoilLayer(40, 1600, 500, 0, 0, 0, 0)>>,
       ground_water_level |-> 0],
      [layers |-> <<SoilLayer(14, 1800, 2000, 0, 0, 0, 10)>>,
       ground_water_level |-> 60],
      [layers |-> <<SoilLayer(4, 1800, 2000, 0, 0, 12, 0),
                    SoilLayer(10, 1800, 2000, 0, 0, 13, 0)>>,
       ground_water_level |-> 4] }

(* Mw 7.5 and a pga of 0.3 g, in fixed point.                              *)
Magnitudes == {750000}
Accelerations == {30000}

(* Mw 6.5 for the CPT pipeline, where the magnitude scaling factor of      *)
(* helper_functions (1.44) and the one of the CPT module (1.03 to 1.45)    *)
(* are apart; at Mw 7.5 both are 1 to three places.                        *)
CptMagnitudes == {650000}

LiqInit ==
    /\ \E input \in ProfileInputs :
          LET ids == [i \in 1..Len(input.layers) |-> i]
              r == SoilProfileInit(input.layers, ids)
          IN  /\ r.error = "ok"
              /\ heap = r.heap
              /\ profiles = <<[layers |-> ids,
                               ground_water_level |-> input.ground_water_level]>>
    /\ log = NoLog
    /\ ret = NoCall

LiqNext ==
    \/ \E kind \in {"CPT", "MASW", "SPT"} : \E exps \in LogInputs(kind) : NewLog(kind, exps)
    \/ \E depth \in QueryDepths \cup ExpDepths : GetExpAtDepth(depth)
    \/ \E k \in 1..Len(profiles), Mw \in Magnitudes, pga \in Accelerations :
          AnalyseLiquefaction(k, Mw, pga)
    \/ \E k \in 1..Len(profiles), Mw \in Magnitudes, pga \in Accelerations :
          SptAnalyseLiquefaction(k, Mw, pga)
    \/ \E k \in 1..Len(profiles), Mw \in CptMagnitudes, pga \in Accelerations :
          /\ log.kind = "CPT"
          /\ AnalyseLiquefaction(k, Mw, pga)

LiqSpec == LiqInit /\ [][LiqNext]_vars

-----------------------------------------------------------------------------
(* Direct calls of the functions of the liquefaction modules, on a profile *)
(* as its construction left it where the function takes one.               *)

(* Depths in centimetres, on and next to the branch bounds of rd.          *)
RdDepths == {-100, 0, 500, 914, 915, 916, 1000, 1500, 2299, 2300, 2301, 2500,
             2999, 3000, 3001, 3500, 10000}

(* Safety factors on and next to the default limit 1.1 and the bound 2 of  *)
(* the settlement estimator, and two limits.                               *)
SafetyFactors == {0, 50000, 100000, 109999, 110000, 110001, 150000, 200000, 200001, 250000}
Limits == {110000, 150000}

(* Blow counts on and next to the bounds 30 of n160 and 34 of n160f.       *)
N160s == {25, 29, 30}
N160fs == {20, 33, 34}

HfCalcRd(depth) ==
    /\ ret' = [op |-> "hf.calc_rd", depth |-> depth, value |-> hf_calc_rd(depth)]
    /\ UNCHANGED <<heap, profiles, log>>

SptCalcRd(depth) ==
    /\ ret' = [op |-> "spt.calc_rd", depth |-> depth, value |-> spt_calc_rd(depth)]
    /\ UNCHANGED <<heap, profiles, log>>

HfCheckSafety(k, depth, safety_factor, limit_safety_factor) ==
    /\ ret' = [op |-> "hf.check_safety", profile |-> k, depth |-> depth,
               safety_factor |-> safety_factor,
               limit_safety_factor |-> limit_safety_factor,
               value |-> hf_check_safety(heap, profiles[k], depth, safety_factor,
                                         limit_safety_factor)]
    /\ UNCHANGED <<heap, profiles, log>>

SptCheckSafety(gwt, plasticity_index, safety_factor, limit_safety_factor, depth, n160, n160f) ==
    /\ ret' = [op |-> "spt.check_safety", gwt |-> gwt,
               plasticity_index |-> plasticity_index,
               safety_factor |-> safety_factor,
               limit_safety_factor |-> limit_safety_factor,
               depth |-> depth, n160 |-> n160, n160f |-> n160f,
               value |-> spt_check_safety(gwt, plasticity_index, safety_factor,
                                          limit_safety_factor, depth, n160, n160f)]
    /\ UNCHANGED <<heap, profiles, log>>

(* The arguments of the tests of calc_crr and values around them: blow     *)
(* counts up to and beyond 34, stresses and scaling factors in fixed point.*)
CrrN160fs == {0, 10, 20, 30, 33, 34, 35, 40}
CrrStresses == {0, 500000, 10000000, 15000000, 20000000}
ScalingFactors == {100000, 700000, 750000, 800000}

SptCalcCrr(n160f, effective_stress, MSF) ==
    /\ ret' = [op |-> "spt.calc_crr", n160f |-> n160f,
               effective_stress |-> effective_stress, MSF |-> MSF]
              @@ spt_calc_crr(n160f, effective_stress, MSF)
    /\ UNCHANGED <<heap, profiles, log>>

(* The arguments of test_calc_settlement and values around them: blow      *)
(* counts below, on, between and above the table entries, layer            *)
(* thicknesses in metres, tip resistances, and the vs1c of calc_vs1c.      *)
N90s == {0, 2, 3, 4, 10, 15, 29, 30, 31, 50}
LayerThicknesses == {0, 100000, 200000, 250000}
TipResistances == {0, 2100000, 3300000, 6000000, 8609090, 20000000, 25400000}
Vs1cs == {20000000, 20750000, 21500000}

N90ToQci(n90) ==
    /\ ret' = [op |-> "n90_to_qci", n90 |-> n90] @@ n90_to_qci(n90)
    /\ UNCHANGED <<heap, profiles, log>>

CalcVolumetricStrain(corrected_tip_resistance, safety_factor) ==
    /\ ret' = [op |-> "calc_volumetric_strain", qci |-> corrected_tip_resistance,
               safety_factor |-> safety_factor]
              @@ calc_volumetric_strain(corrected_tip_resistance, safety_factor)
    /\ UNCHANGED <<heap, profiles, log>>

CalcSettlementViaN90(safety_factor, layer_thickness, n90) ==
    /\ ret' = [op |-> "calc_settlement_via_n90", safety_factor |-> safety_factor,
               layer_thickness |-> layer_thickness, n90 |-> n90]
              @@ calc_settlement_via_n90(safety_factor, layer_thickness, n90)
    /\ UNCHANGED <<heap, profiles, log>>

CalcSettlementViaVs1c(safety_factor, layer_thickness, vs1c) ==
    /\ ret' = [op |-> "calc_settlement_via_vs1c", safety_factor |-> safety_factor,
               layer_thickness |-> layer_thickness, vs1c |-> vs1c]
              @@ calc_settlement_via_vs1c(safety_factor, layer_thickness, vs1c)
    /\ UNCHANGED <<heap, profiles, log>>

CalcSettlementViaQci(safety_factor, layer_thickness, qci) ==
    /\ ret' = [op |-> "calc_settlement_via_qci", safety_factor |-> safety_factor,
               layer_thickness |-> layer_thickness, qci |-> qci]
              @@ calc_settlement_via_qci(safety_factor, layer_thickness, qci)
    /\ UNCHANGED <<heap, profiles, log>>

(* q is the tip resistance the call interpolated, kept with the result.    *)
SptCalcSettlement(safety_factor, layer_thickness, n90) ==
    /\ ret' = [op |-> "spt.calc_settlement", safety_factor |-> safety_factor,
               layer_thickness |-> layer_thickness, n90 |-> n90,
               q |-> spt_settlement_q(n90)]
              @@ spt_calc_settlement(safety_factor, layer_thickness, n90)
    /\ UNCHANGED <<heap, profiles, log>>

(* The arguments of the three analyse_for_layer: SPT readings at 2 m and   *)
(* 7 m whose blow counts lie below, on and above the bounds 30 and 34,     *)
(* stresses of 0, 5 and 10 t/m^2, a pga of 0 and of 0.3 g, and the scaling *)
(* factor of Mw = 7.5.                                                     *)
SptReadings ==
    {SptExp(d, 10, 10, c[1], c[2]) :
        d \in {4, 14},
        c \in {<<12, 15>>, <<30, 15>>, <<29, 33>>, <<30, 33>>, <<29, 34>>, <<30, 34>>,
              <<35, 40>>}}
LayerStresses == {0, 500000, 1000000}
DirectAccelerations == {0, 30000}

SptAnalyseForLayer(gwt, effective_stress, normal_stress, id, exp, MSF, pga, limit_safety_factor) ==
    /\ ret' = [op |-> "spt.analyse_for_layer", gwt |-> gwt, layer |-> id, exp |-> exp,
               MSF |-> MSF, pga |-> pga, limit_safety_factor |-> limit_safety_factor,
               effective_stress |-> effective_stress, normal_stress |-> normal_stress]
              @@ spt_analyse_for_layer(gwt, effective_stress, normal_stress, heap[id], exp,
                                       MSF, pga, limit_safety_factor)
    /\ UNCHANGED <<heap, profiles, log>>

(* A dry layer of 40 m of silty sand, 1.58 t/m^3: at 39.5 m the effective   *)
(* stress is 62.41 t/m^2, where Cn = 3.16 / 7.9 = 0.4 and a velocity of    *)
(* 500 gives vs1 = 200 = vs1c.                                             *)
DeepProfileInputs ==
    { [layers |-> <<SoilLayer(80, 1580, 1800, 0, 0, 0, 40)>>, ground_water_level |-> 100] }

(* Depths in and below the profiles, and velocities that reach vs1c, that  *)
(* stay below it, and that reach it exactly at 39.5 m of the deep profile. *)
MaswDepths == {0, 3, 6, 13, 79}
Velocities == {100, 400, 499, 500}

MaswAnalyseForLayer(k, exp, depth, MSF, pga, limit_safety_factor) ==
    /\ ret' = [op |-> "masw.analyse_for_layer", profile |-> k, exp |-> exp, depth |-> depth,
               MSF |-> MSF, pga |-> pga, limit_safety_factor |-> limit_safety_factor]
              @@ masw_analyse_for_layer(heap, profiles[k], exp, depth, MSF, pga,
                                        limit_safety_factor)
    /\ UNCHANGED <<heap, profiles, log>>

(* Depths in the profiles and cone resistances for which calc_cn settles   *)
(* at every effective stress (5) and only above the floor of 0.1 (50).     *)
CptDepths == {0, 2, 6, 13}
ConeResistances == {5, 50}

(* A pga of 0, of 0.1 g, under which the resistance at cone resistance 50  *)
(* is above the demand under water, and of 0.3 g, under which it is not.   *)
CptAccelerations == {0, 10000, 30000}

CptAnalyseForLayer(k, exp, depth, MSF, pga, Mw, limit_safety_factor) ==
    /\ ret' = [op |-> "cpt.analyse_for_layer", profile |-> k, exp |-> exp, depth |-> depth,
               MSF |-> MSF, pga |-> pga, Mw |-> Mw,
               limit_safety_factor |-> limit_safety_factor]
              @@ cpt_analyse_for_layer(heap, profiles[k], exp, depth, MSF, pga, Mw,
                                       limit_safety_factor)
    /\ UNCHANGED <<heap, profiles, log>>

(* The arguments of direct calls of cpt calc_cn, in fixed point: the first  *)
(* m of analyse_for_layer and one more, effective stresses below, on and   *)
(* above the floor of 0.1 t/m^2, fine contents in percent.                 *)
FirstExponents == {30000, 50000}
CnStresses == {0, 5000, 10000, 100000, 500000, 5000000}
FineContents == {0, 1000000, 4000000}

CptCalcCn(m, qcn, effective_stress, fine_content) ==
    /\ ret' = [op |-> "cpt.calc_cn", m |-> m, qcn |-> qcn,
               effective_stress |-> effective_stress, fine_content |-> fine_content]
              @@ cpt_calc_cn(m, qcn, effective_stress, fine_content)
    /\ UNCHANGED <<heap, profiles, log>>

FnInit ==
    /\ \E input \in ProfileInputs \cup DeepProfileInputs :
          LET ids == [i \in 1..Len(input.layers) |-> i]
              r == SoilProfileInit(input.layers, ids)
          IN  /\ r.error = "ok"
              /\ heap = r.heap
              /\ profiles = <<[layers |-> ids,
                               ground_water_level |-> input.ground_water_level]>>
    /\ log = NoLog
    /\ ret = NoCall

(* The functions keep nothing between calls, so a behaviour is one call.   *)
FnNext ==
    \/ \E depth \in RdDepths : ret = NoCall /\ HfCalcRd(depth)
    \/ \E depth \in RdDepths : ret = NoCall /\ SptCalcRd(depth)
    \/ \E k \in 1..Len(profiles), depth \in QueryDepths \cup ExpDepths,
          safety_factor \in SafetyFactors, limit_safety_factor \in Limits :
          /\ ret = NoCall
          /\ HfCheckSafety(k, depth, safety_factor, limit_safety_factor)
    \/ \E gwt \in {0, 20, 21}, plasticity_index \in {0, 12, 13},
          safety_factor \in {100000, 109999, 110000, 110001},
          limit_safety_factor \in Limits, n160 \in N160s, n160f \in N160fs :
          /\ ret = NoCall
          /\ SptCheckSafety(gwt, plasticity_index, safety_factor, limit_safety_factor,
                            20, n160, n160f)
    \/ \E n160f \in CrrN160fs, effective_stress \in CrrStresses, MSF \in ScalingFactors :
          /\ ret = NoCall
          /\ SptCalcCrr(n160f, effective_stress, MSF)
    \/ \E n90 \in N90s : ret = NoCall /\ N90ToQci(n90)
    \/ \E qci \in TipResistances, safety_factor \in SafetyFactors :
          /\ ret = NoCall
          /\ CalcVolumetricStrain(qci, safety_factor)
    \/ \E safety_factor \in SafetyFactors, layer_thickness \in LayerThicknesses, n90 \in N90s :
          /\ ret = NoCall
          /\ CalcSettlementViaN90(safety_factor, layer_thickness, n90)
    \/ \E safety_factor \in SafetyFactors, layer_thickness \in LayerThicknesses, vs1c \in Vs1cs :
          /\ ret = NoCall
          /\ CalcSettlementViaVs1c(safety_factor, layer_thickness, vs1c)
    \/ \E safety_factor \in SafetyFactors, layer_thickness \in LayerThicknesses,
          qci \in TipResistances :
          /\ ret = NoCall
          /\ CalcSettlementViaQci(safety_factor, layer_thickness, qci)
    \/ \E safety_factor \in SafetyFactors, layer_thickness \in LayerThicknesses, n90 \in N90s :
          /\ ret = NoCall
          /\ SptCalcSettlement(safety_factor, layer_thickness, n90)
    \/ \E gwt \in {0, 40}, effective_stress \in LayerStresses \ {0},
          normal_stress \in LayerStresses, id \in DOMAIN heap, exp \in SptReadings,
          Mw \in Magnitudes, pga \in DirectAccelerations, limit_safety_factor \in Limits :
          /\ ret = NoCall
          /\ SptAnalyseForLayer(gwt, effective_stress, normal_stress, id, exp,
                                hf_calc_msf(Mw), pga, limit_safety_factor)
    \/ \E k \in 1..Len(profiles), depth \in MaswDepths, v \in Velocities,
          Mw \in Magnitudes, pga \in DirectAccelerations, limit_safety_factor \in Limits :
          /\ ret = NoCall
          /\ MaswAnalyseForLayer(k, MASWExp(depth, v), depth, hf_calc_msf(Mw), pga,
                                 limit_safety_factor)
    \/ \E k \in 1..Len(profiles), depth \in CptDepths, q \in ConeResistances,
          Mw \in Magnitudes, pga \in CptAccelerations, limit_safety_factor \in Limits :
          /\ ret = NoCall
          /\ CptAnalyseForLayer(k, CPTExp(depth, q), depth, hf_calc_msf(Mw), pga, Mw,
                                limit_safety_factor)
    \/ \E m \in FirstExponents, q \in ConeResistances, effective_stress \in CnStresses,
          fine_content \in FineContents :
          /\ ret = NoCall
          /\ CptCalcCn(m, q * Scale, effective_stress, fine_content)

FnSpec == FnInit /\ [][FnNext]_vars

-----------------------------------------------------------------------------
(* Several profiles over one heap of layer objects: a caller may hand      *)
(* SoilProfile a list that holds layer objects another profile holds, and  *)
(* may copy a profile.                                                     *)

MaxProfiles == 3        \* profiles that are built
MaxObjects == 5         \* layer objects, copies included

(* Layers of 1 m and 2 m, as a caller creates them.                        *)
SharedLayerInputs == {SoilLayer(t, 1800, 2000, 0, 0, 0, 0) : t \in {2, 4}}

(* The lists of one or two different layer objects of the heap h.          *)
LayerLists(h) ==
    {<<a>> : a \in DOMAIN h}
    \cup {pair \in {<<a, b>> : a \in DOMAIN h, b \in DOMAIN h} : pair[1] # pair[2]}

(* [copy.deepcopy(layer) for layer in self.layers]: new objects with the   *)
(* fields of the layers ids, after the objects of h.                       *)
DeepCopies(h, ids) == h \o [i \in 1..Len(ids) |-> h[ids[i]]]

(* copy(): SoilProfile on deep copies of the layers.                       *)
Copy(k) ==
    LET ids == profiles[k].layers
        copies == [i \in 1..Len(ids) |-> Len(heap) + i]
        r == SoilProfileInit(DeepCopies(heap, ids), copies)
    IN  /\ Len(profiles) < MaxProfiles
        /\ Len(heap) + Len(ids) <= MaxObjects
        /\ heap' = r.heap
        /\ profiles' = Append(profiles,
                              [layers |-> copies,
                               ground_water_level |-> profiles[k].ground_water_level])
        /\ ret' = [op |-> "copy", profile |-> k, error |-> r.error]
        /\ UNCHANGED log

(* A caller's modified profile: q = p.copy(), a new thickness on layer i   *)
(* of q, and q.calc_layer_depths().                                        *)
ModifyCopy(k, i, thickness) ==
    LET ids == profiles[k].layers
        copies == [j \in 1..Len(ids) |-> Len(heap) + j]
        r == SoilProfileInit(DeepCopies(heap, ids), copies)
        modified == [r.heap EXCEPT ![copies[i]].thickness = thickness]
    IN  /\ Len(profiles) < MaxProfiles
        /\ Len(heap) + Len(ids) <= MaxObjects
        /\ heap' = calc_layer_depths(modified, copies).heap
        /\ profiles' = Append(profiles,
                              [layers |-> copies,
                               ground_water_level |-> profiles[k].ground_water_level])
        /\ ret' = [op |-> "modified copy", profile |-> k, error |-> r.error]
        /\ UNCHANGED log

SharedNext ==
    \/ \E layer \in SharedLayerInputs : NewLayer(layer)
    \/ \E ids \in LayerLists(heap) :
          /\ Len(profiles) < MaxProfiles
          /\ Construct(ids, 0)
    \/ \E k \in 1..Len(profiles) : Copy(k)
    \/ \E k \in 1..Len(profiles) : \E i \in 1..Len(profiles[k].layers) :
          ModifyCopy(k, i, 6)
    \/ \E k \in 1..Len(profiles), depth \in {0, 2, 5} : GetLayerIndex(k, depth)

SharedSpec == Init /\ [][SharedNext]_vars

-----------------------------------------------------------------------------
(* The Vesic bearing capacity factors. Angles in degrees, lengths in       *)
(* metres, cohesion in kPa and loads in kN, all fixed point. Each function *)
(* is wrapped by pydantic's validate_call, which checks every argument     *)
(* against the Field bounds of its annotation and raises ValidationError   *)
(* before the body runs.                                                   *)

(* Field(ge=0, le=90)                                                      *)
AngleField(x) == 0 <= x /\ x <= 90 * Scale

(* Field(ge=0)                                                             *)
NonNegativeField(x) == x >= 0

(* Field(gt=0)                                                             *)
PositiveField(x) == x > 0

(* math.radians(x)                                                         *)
math_radians(x) == FMul(x, Pi) \div 180

(* math.cos(x), as sin(x + pi/2)                                           *)
FCos(x) == FSin(x + Pi \div 2)

(* math.tan(x) for an x whose tangent is within the fixed-point range      *)
(* (the float tangent is finite everywhere, about 1.6e16 at                *)
(* math.radians(90)).                                                      *)
math_tan(x) == FDiv(FSin(x), FCos(x))

(* math.exp(math.pi * math.tan(x)) raises OverflowError, for 0 <= x <=     *)
(* pi/2: math.exp raises it above 709.78271, the largest argument whose    *)
(* exponential is a float, and pi * tan x > 709.78271 is decided without   *)
(* the quotient.                                                           *)
exp_pi_tan_overflows(x) == FMul(Pi, FSin(x)) > FMul(70978271, FCos(x))

(* math.pow(x, y): ValueError for a negative x with a fractional y.        *)
math_pow(x, y) ==
    IF x < 0 /\ y % Scale # 0 THEN [error |-> "ValueError"]
    ELSE [error |-> "ok",
          value |-> IF x >= 0 THEN FPow(x, y)
                    ELSE IF (y \div Scale) % 2 = 0 THEN FPow(0 - x, y)
                    ELSE 0 - FPow(0 - x, y)]

(* z - z^3 / 3 + z^5 / 5 - ... from the term zpow = z^n on, for |z| <= 1/2 *)
RECURSIVE AtanSum(_, _, _)
AtanSum(zpow, z2, n) ==
    IF zpow = 0 THEN 0
    ELSE zpow \div n + AtanSum(0 - FMul(zpow, z2), z2, n + 2)

(* math.atan(x) for x >= 0: atan x = pi/2 - atan(1/x) above 1, and         *)
(* atan x = atan 0.5 + atan((x - 0.5) / (1 + x / 2)) above 0.25, atan 0.5  *)
(* being 0.46365.                                                          *)
RECURSIVE FAtan(_)
FAtan(x) ==
    IF x > Scale THEN Pi \div 2 - FAtan(FDiv(Scale, x))
    ELSE IF 4 * x > Scale
         THEN LET z == FDiv(x - Scale \div 2, Scale + x \div 2)
              IN  46365 + AtanSum(z, FMul(z, z), 1)
    ELSE AtanSum(x, FMul(x, x), 1)

(* The body of calc_bearing_capacity_factors: the error raised or "ok",    *)
(* and (Nc, Nq, Ng).                                                       *)
bearing_capacity_factors_body(phi) ==
    LET phi_rad == math_radians(phi)
    IN  IF exp_pi_tan_overflows(phi_rad) THEN [error |-> "OverflowError"]
        ELSE LET tan_phi == math_tan(phi_rad)
                 nq == FMul(FExp(FMul(Pi, tan_phi)),
                            math_pow(math_tan(math_radians(45 * Scale + phi \div 2)),
                                     2 * Scale).value)
                 nc == IF phi = 0 THEN 514000 ELSE FDiv(nq - Scale, tan_phi)
                 ng == 2 * FMul(nq - Scale, tan_phi)
             IN  [error |-> "ok", value |-> <<nc, nq, ng>>]

(* vesic.calc_bearing_capacity_factors                                     *)
calc_bearing_capacity_factors(phi) ==
    IF ~AngleField(phi) THEN [error |-> "ValidationError"]
    ELSE bearing_capacity_factors_body(phi)

(* The body of calc_shape_factors, for a phi below the right angle.        *)
shape_factors_body(foundation_width, foundation_length, nq, nc, phi) ==
    IF phi < 0 \/ phi > 90 * Scale THEN [error |-> "ValueError"]
    ELSE LET w_l == FDiv(foundation_width, foundation_length)
             sc == Scale + FMul(w_l, FDiv(nq, nc))
             sq == Scale + FMul(w_l, math_tan(math_radians(phi)))
             sg == Max(Scale - FMul(40000, w_l), 60000)
         IN  [error |-> "ok", value |-> <<sc, sq, sg>>]

(* vesic.calc_shape_factors                                                *)
calc_shape_factors(foundation_width, foundation_length, nq, nc, phi) ==
    IF ~(/\ PositiveField(foundation_width)
         /\ PositiveField(foundation_length)
         /\ PositiveField(nq)
         /\ PositiveField(nc)
         /\ AngleField(phi))
    THEN [error |-> "ValidationError"]
    ELSE shape_factors_body(foundation_width, foundation_length, nq, nc, phi)

(* The branch of calc_load_inclination_factors for phi # 0 and a tilted    *)
(* base: d is f + area * ca * tan_phi_inv.                                 *)
inclined_factors(vmax, d, m, nq) ==
    IF d = 0 THEN [error |-> "ZeroDivisionError"]
    ELSE LET base == Scale - FDiv(vmax, d)
             iq == math_pow(base, m)
             ig == math_pow(base, m + Scale)
         IN  IF iq.error # "ok" THEN iq
             ELSE IF ig.error # "ok" THEN ig
             ELSE [error |-> "ok",
                   value |-> <<iq.value - FDiv(Scale - iq.value, nq - Scale),
                               iq.value, ig.value>>]

(* The body of calc_load_inclination_factors: the error raised or "ok",    *)
(* and (ic, iq, ig).                                                       *)
load_inclination_factors_body(phi, cohesion, foundation_width, foundation_length, foundation_base_angle, vertical_load, horizontal_load_x, horizontal_load_y) ==
    LET base_angle == foundation_base_angle
        w_l == FDiv(foundation_width, foundation_length)
        vmax == Max(horizontal_load_y, horizontal_load_x)
        factors == calc_bearing_capacity_factors(phi)
        area == FMul(foundation_width, foundation_length)
        ca == FMul(cohesion, 75000)
        m == FDiv(2 * Scale + w_l, Scale + w_l)
    IN  IF factors.error # "ok" THEN factors
        ELSE IF base_angle <= 0 THEN [error |-> "ok", value |-> <<Scale, Scale, Scale>>]
        ELSE IF phi = 0
             THEN IF FMul(FMul(area, ca), factors.value[1]) = 0
                  THEN [error |-> "ZeroDivisionError"]
                  ELSE [error |-> "ok",
                        value |-> <<Scale - FDiv(FMul(m, vmax),
                                                 FMul(FMul(area, ca), factors.value[1])),
                                    Scale, Scale>>]
        ELSE inclined_factors(vmax,
                              vertical_load
                              + FMul(FMul(area, ca),
                                     FDiv(Scale, math_tan(math_radians(phi)))),
                              m, factors.value[2])

(* vesic.calc_load_inclination_factors                                     *)
calc_load_inclination_factors(phi, cohesion, foundation_width, foundation_length, foundation_base_angle, vertical_load, horizontal_load_x, horizontal_load_y) ==
    IF ~(/\ AngleField(phi)
         /\ NonNegativeField(cohesion)
         /\ PositiveField(foundation_width)
         /\ PositiveField(foundation_length)
         /\ AngleField(foundation_base_angle)
         /\ NonNegativeField(vertical_load)
         /\ NonNegativeField(horizontal_load_x)
         /\ NonNegativeField(horizontal_load_y))
    THEN [error |-> "ValidationError"]
    ELSE load_inclination_factors_body(phi, cohesion, foundation_width, foundation_length,
                                       foundation_base_angle, vertical_load,
                                       horizontal_load_x, horizontal_load_y)

(* The body of calc_base_factors, for a phi below the right angle.         *)
base_factors_body(phi, slope_angle, base_angle) ==
    LET tan_phi == math_tan(math_radians(phi))
        bc == IF phi = 0 THEN Scale - FDiv(math_radians(slope_angle), 514000)
              ELSE Scale - FDiv(2 * math_radians(slope_angle), FMul(514000, tan_phi))
        bq == math_pow(Scale - FMul(math_radians(base_angle), tan_phi), 2 * Scale).value
    IN  [error |-> "ok", value |-> <<bc, bq, bq>>]

(* vesic.calc_base_factors                                                 *)
calc_base_factors(phi, slope_angle, base_angle) ==
    IF ~(AngleField(phi) /\ AngleField(slope_angle) /\ AngleField(base_angle))
    THEN [error |-> "ValidationError"]
    ELSE base_factors_body(phi, slope_angle, base_angle)

(* The body of calc_ground_factors, for angles below the right angle.      *)
ground_factors_body(iq, slope_angle, phi) ==
    LET gc == IF phi = 0 THEN Scale - FDiv(math_radians(slope_angle), 514000)
              ELSE iq - FDiv(Scale - iq, FMul(514000, math_tan(math_radians(phi))))
        gq == math_pow(Scale - math_tan(math_radians(slope_angle)), 2 * Scale).value
    IN  [error |-> "ok", value |-> <<gc, gq, gq>>]

(* vesic.calc_ground_factors                                               *)
calc_ground_factors(iq, slope_angle, phi) ==
    IF ~(NonNegativeField(iq) /\ AngleField(slope_angle) /\ AngleField(phi))
    THEN [error |-> "ValidationError"]
    ELSE ground_factors_body(iq, slope_angle, phi)

(* The body of calc_depth_factors, for a phi below the right angle.        *)
depth_factors_body(foundation_depth, foundation_width, phi) ==
    LET ratio == FDiv(foundation_depth, foundation_width)
        db == IF ratio <= Scale THEN ratio ELSE FAtan(ratio)
        phi_rad == math_radians(phi)
        dc == Scale + FMul(40000, db)
        dq == Scale
              + FMul(FMul(2 * math_tan(phi_rad),
                          math_pow(Scale - FSin(phi_rad), 2 * Scale).value),
                     db)
    IN  [error |-> "ok", value |-> <<dc, dq, Scale>>]

(* vesic.calc_depth_factors                                                *)
calc_depth_factors(foundation_depth, foundation_width, phi) ==
    IF ~(NonNegativeField(foundation_depth) /\ PositiveField(foundation_width)
         /\ AngleField(phi))
    THEN [error |-> "ValidationError"]
    ELSE depth_factors_body(foundation_depth, foundation_width, phi)

(* Arguments on, inside and outside the Field bounds.                      *)
VesicAngles == {x * Scale : x \in {-10, 0, 30, 45, 90, 100}}

(* Angles whose tangent is within the fixed-point range, and angles        *)
(* outside the Field bounds.                                               *)
FrictionAngles == VesicAngles \ {90 * Scale}

FoundationSizes == {x * Scale : x \in {-2, 0, 2, 4}}

FactorValues == {-Scale, 0, 1840000, 3010000}

Loads == {x * Scale : x \in {-1, 0, 50, 100, 150}}

InclinationFactors == {-50000, 0, 50000, Scale}

FoundationDepths == {x * Scale : x \in {-1, 0, 2, 3}}

CalcBearingCapacityFactors(phi) ==
    /\ ret' = [op |-> "vesic.calc_bearing_capacity_factors", phi |-> phi]
              @@ calc_bearing_capacity_factors(phi)
    /\ UNCHANGED <<heap, profiles, log>>

CalcShapeFactors(foundation_width, foundation_length, nq, nc, phi) ==
    /\ ret' = [op |-> "vesic.calc_shape_factors", foundation_width |-> foundation_width,
               foundation_length |-> foundation_length, nq |-> nq, nc |-> nc, phi |-> phi]
              @@ calc_shape_factors(foundation_width, foundation_length, nq, nc, phi)
    /\ UNCHANGED <<heap, profiles, log>>

CalcLoadInclinationFactors(phi, cohesion, foundation_width, foundation_length, foundation_base_angle, vertical_load, horizontal_load_x, horizontal_load_y) ==
    /\ ret' = [op |-> "vesic.calc_load_inclination_factors", phi |-> phi,
               cohesion |-> cohesion, foundation_width |-> foundation_width,
               foundation_length |-> foundation_length,
               foundation_base_angle |-> foundation_base_angle,
               vertical_load |-> vertical_load,
               horizontal_load_x |-> horizontal_load_x,
               horizontal_load_y |-> horizontal_load_y]
              @@ calc_load_inclination_factors(phi, cohesion, foundation_width,
                                               foundation_length, foundation_base_angle,
                                               vertical_load, horizontal_load_x,
                                               horizontal_load_y)
    /\ UNCHANGED <<heap, profiles, log>>

CalcBaseFactors(phi, slope_angle, base_angle) ==
    /\ ret' = [op |-> "vesic.calc_base_factors", phi |-> phi,
               slope_angle |-> slope_angle, base_angle |-> base_angle]
              @@ calc_base_factors(phi, slope_angle, base_angle)
    /\ UNCHANGED <<heap, profiles, log>>

CalcGroundFactors(iq, slope_angle, phi) ==
    /\ ret' = [op |-> "vesic.calc_ground_factors", iq |-> iq,
               slope_angle |-> slope_angle, phi |-> phi]
              @@ calc_ground_factors(iq, slope_angle, phi)
    /\ UNCHANGED <<heap, profiles, log>>

CalcDepthFactors(foundation_depth, foundation_width, phi) ==
    /\ ret' = [op |-> "vesic.calc_depth_factors", foundation_depth |-> foundation_depth,
               foundation_width |-> foundation_width, phi |-> phi]
              @@ calc_depth_factors(foundation_depth, foundation_width, phi)
    /\ UNCHANGED <<heap, profiles, log>>

(* The functions keep nothing between calls, so a behaviour is one call.   *)
VesicNext ==
    \/ \E phi \in VesicAngles : ret = NoCall /\ CalcBearingCapacityFactors(phi)
    \/ \E foundation_width \in FoundationSizes, foundation_length \in FoundationSizes,
          nq \in FactorValues, nc \in FactorValues, phi \in FrictionAngles :
          /\ ret = NoCall
          /\ CalcShapeFactors(foundation_width, foundation_length, nq, nc, phi)
    \/ \E phi \in VesicAngles, cohesion \in {-Scale, 0, 10 * Scale},
          foundation_width \in {0, 2 * Scale}, foundation_length \in {0, 4 * Scale},
          foundation_base_angle \in VesicAngles \ {30 * Scale, 100 * Scale},
          vertical_load \in Loads \ {50 * Scale, 150 * Scale},
          horizontal_load_x \in Loads \ {0}, horizontal_load_y \in {-Scale, 20 * Scale} :
          /\ ret = NoCall
          /\ CalcLoadInclinationFactors(phi, cohesion, foundation_width, foundation_length,
                                        foundation_base_angle, vertical_load,
                                        horizontal_load_x, horizontal_load_y)
    \/ \E phi \in FrictionAngles, slope_angle \in VesicAngles, base_angle \in VesicAngles :
          ret = NoCall /\ CalcBaseFactors(phi, slope_angle, base_angle)
    \/ \E iq \in InclinationFactors, slope_angle \in FrictionAngles, phi \in FrictionAngles :
          ret = NoCall /\ CalcGroundFactors(iq, slope_angle, phi)
    \/ \E foundation_depth \in FoundationDepths, foundation_width \in FoundationSizes,
          phi \in FrictionAngles :
          ret = NoCall /\ CalcDepthFactors(foundation_depth, foundation_width, phi)

VesicSpec == Init /\ [][VesicNext]_vars

-----------------------------------------------------------------------------
(* What the claims are stated with.                                        *)

(* The sum of the thicknesses of the first i layers of the list ids.       *)
RECURSIVE CumThickness(_, _, _)
CumThickness(h, ids, i) ==
    IF i = 0 THEN 0 ELSE CumThickness(h, ids, i - 1) + h[ids[i]].thickness

LastCallProfile == profiles[ret.profile]

NonNegativeThicknesses(h, p) ==
    \A i \in 1..Len(p.layers) : h[p.layers[i]].thickness >= 0

ClaimIncrement(layer, gwl, top, bottom) ==
    IF gwl >= bottom THEN layer.dry_unit_weight * (bottom - top)
    ELSE IF gwl <= top THEN layer.saturated_unit_weight * (bottom - top)
    ELSE layer.dry_unit_weight * (gwl - top) + layer.saturated_unit_weight * (bottom - gwl)

RECURSIVE ClaimStress(_, _, _, _, _)
ClaimStress(h, p, depth, k, i) ==
    IF i > k + 1 THEN 0
    ELSE ClaimIncrement(h[p.layers[i]], p.ground_water_level,
                        CumThickness(h, p.layers, i - 1),
                        IF i = k + 1 THEN depth ELSE CumThickness(h, p.layers, i))
         + ClaimStress(h, p, depth, k, i + 1)

(* C3: calc_normal_stress(depth) is the sum of the increments of the       *)
(* layers from the surface to the governing layer: dry weight x thickness  *)
(* when the water table is at or below the increment's bottom, saturated   *)
(* weight x thickness when it is at or above its top, and the split at the *)
(* water table otherwise.                                                  *)
C3_NormalStress ==
    (ret.op = "calc_normal_stress") =>
        ret.value = ClaimStress(heap, LastCallProfile, ret.depth,
                                get_layer_index(heap, LastCallProfile, ret.depth), 1)

(* The depth lies in the third layer and the water table strictly inside   *)
(* the second: a dry, a split and a saturated increment are summed.        *)
C3_Witness ==
    /\ ret.op = "calc_normal_stress"
    /\ Len(LastCallProfile.layers) = 3
    /\ get_layer_index(heap, LastCallProfile, ret.depth) = 2
    /\ LastCallProfile.ground_water_level > CumThickness(heap, LastCallProfile.layers, 1)
    /\ LastCallProfile.ground_water_level < CumThickness(heap, LastCallProfile.layers, 2)
    /\ ret.depth > CumThickness(heap, LastCallProfile.layers, 2)
    /\ \A i \in 1..3 : heap[LastCallProfile.layers[i]].thickness > 0

(* C4: in a profile whose thicknesses (and unit weights) are non-negative, *)
(* calc_normal_stress is non-decreasing in depth: the stress returned for  *)
(* a depth is at least the stress of every shallower depth >= 0.           *)
C4_Monotone ==
    (ret.op = "calc_normal_stress" /\ NonNegativeThicknesses(heap, LastCallProfile)) =>
        \A d1 \in 0..ret.depth :
            calc_normal_stress(heap, LastCallProfile, d1) <= ret.value

(* The depth lies in a deeper layer and below the water table, and a       *)
(* shallower depth in the first layer, above the water table, has a        *)
(* strictly smaller stress.                                                *)
C4_Witness ==
    /\ ret.op = "calc_normal_stress"
    /\ NonNegativeThicknesses(heap, LastCallProfile)
    /\ get_layer_index(heap, LastCallProfile, ret.depth) >= 1
    /\ ret.depth > LastCallProfile.ground_water_level
    /\ \E d1 \in 1..ret.depth :
          /\ get_layer_index(heap, LastCallProfile, d1) = 0
          /\ d1 < LastCallProfile.ground_water_level
          /\ calc_normal_stress(heap, LastCallProfile, d1) < ret.value

(* C5: calc_effective_stress(depth) is calc_normal_stress(depth) when      *)
(* depth <= ground_water_level and calc_normal_stress(depth) minus         *)
(* (depth - ground_water_level) x 0.981 otherwise, negative or not.        *)
C5_EffectiveStress ==
    (ret.op = "calc_effective_stress") =>
        LET normal == calc_normal_stress(heap, LastCallProfile, ret.depth)
            gwl == LastCallProfile.ground_water_level
        IN  IF ret.depth <= gwl
            THEN ret.value = normal
            ELSE ret.value = normal - (ret.depth - gwl) * WaterUnitWeight

(* Below the water table in soil lighter than water the value returned is  *)
(* negative.                                                               *)
C5_Witness ==
    /\ ret.op = "calc_effective_stress"
    /\ ret.depth > LastCallProfile.ground_water_level
    /\ ret.value < 0

(* The depth is exactly at the water table, inside the profile.            *)
C5_WitnessAtWaterTable ==
    /\ ret.op = "calc_effective_stress"
    /\ ret.depth = LastCallProfile.ground_water_level
    /\ ret.depth > 0
    /\ ret.value = calc_normal_stress(heap, LastCallProfile, ret.depth)

(* C6: SoilProfile(layers, gwl) raises when a layer's thickness is         *)
(* undefined, zero or negative, and no profile holds such a layer.         *)
C6_RejectsNonPositive ==
    /\ (ret.op = "SoilProfile"
        /\ \E i \in 1..Len(ret.layers) :
              \/ ret.before[ret.layers[i]].thickness = None
              \/ ret.before[ret.layers[i]].thickness <= 0)
       => ret.error # "ok"
    /\ \A k \in 1..Len(profiles) : \A i \in 1..Len(profiles[k].layers) :
          /\ heap[profiles[k].layers[i]].thickness # None
          /\ heap[profiles[k].layers[i]].thickness > 0

(* C7: SoilProfile([], gwl) raises in validate, before calc_layer_depths   *)
(* is entered, and every profile that exists has at least one layer.       *)
C7_EmptyListRejected ==
    /\ (ret.op = "SoilProfile" /\ ret.layers = <<>>) =>
          (ret.error = "ValueError" /\ ret.trace = <<"validate">>)
    /\ \A k \in 1..Len(profiles) : Len(profiles[k].layers) >= 1

(* SoilProfile was called with the empty list and raised.                  *)
C7_Witness ==
    /\ ret.op = "SoilProfile"
    /\ ret.layers = <<>>
    /\ ret.error = "ValueError"
    /\ profiles = <<>>

(* The last record of exps at or above depth (its depth <= depth).         *)
LastAtOrAbove(exps, depth) ==
    exps[CHOOSE i \in 1..Len(exps) :
            /\ exps[i].depth <= depth
            /\ \A j \in 1..Len(exps) : exps[j].depth <= depth => j <= i]

(* C8: on a log sorted ascending by depth, get_exp_at_depth(depth) returns *)
(* the last record whose depth is <= depth whenever there is one: the      *)
(* record at depth itself for a depth that was measured, and never a       *)
(* record deeper than depth.                                               *)
C8_LastRecordAtOrAbove ==
    (ret.op = "get_exp_at_depth" /\ \E i \in 1..Len(log.exps) : log.exps[i].depth <= ret.depth)
        => (ret.error = "ok" /\ ret.exp = LastAtOrAbove(log.exps, ret.depth))

(* The depths analyse_liquefaction is to analyse: the layer bottoms of the *)
(* profile and the depths of the log's records.                            *)
UnionOfDepths(p, exps) ==
    {CumThickness(heap, p.layers, i) : i \in 1..Len(p.layers)}
    \cup {exps[i].depth : i \in 1..Len(exps)}

OneRecordPerDepthAscending(results, depths) ==
    /\ Len(results) = Cardinality(depths)
    /\ {results[i].depth : i \in 1..Len(results)} = depths
    /\ \A i \in 1..(Len(results) - 1) : results[i].depth < results[i + 1].depth

(* C9: the CPT and MASW analyse_liquefaction return one result record per  *)
(* element of the union of the layer bottoms and the measurement depths,   *)
(* in strictly ascending depth order. Stated for a log that has records,   *)
(* a positive pga and a soil whose effective stress is positive at every   *)
(* one of these depths.                                                    *)
C9_OneRecordPerDepth ==
    (/\ ret.op = "analyse_liquefaction"
     /\ ret.kind \in {"CPT", "MASW"}
     /\ log.exps # <<>>
     /\ ret.pga > 0
     /\ \A d \in UnionOfDepths(LastCallProfile, log.exps) :
           calc_effective_stress(heap, LastCallProfile, d) > 0)
        => /\ ret.error = "ok"
           /\ OneRecordPerDepthAscending(ret.value, UnionOfDepths(LastCallProfile, log.exps))

(* The calls that do return, return as C9 says.                            *)
C9_WhenReturned ==
    (ret.op = "analyse_liquefaction" /\ ret.kind \in {"CPT", "MASW"} /\ ret.error = "ok")
        => OneRecordPerDepthAscending(ret.value, UnionOfDepths(LastCallProfile, log.exps))

(* A call returned for a log whose depths are partly layer bottoms and     *)
(* partly not.                                                             *)
C9_WhenReturnedWitness ==
    /\ ret.op = "analyse_liquefaction" /\ ret.kind = "MASW" /\ ret.error = "ok"
    /\ Len(LastCallProfile.layers) = 3
    /\ Len(log.exps) = 3
    /\ Len(ret.value) = 4

(* C10: the SPT analyse_liquefaction, on the profile of thicknesses 2, 5   *)
(* and 15 m with the water table at 1 m and an SPT log with one reading at *)
(* the bottom of each layer, Mw = 7.5 and pga = 0.3, returns three records *)
(* at the depths 2, 7 and 22 m and does not raise.                         *)
C10_SptScenario ==
    (/\ ret.op = "analyse_liquefaction"
     /\ ret.kind = "SPT"
     /\ ret.Mw = 750000 /\ ret.pga = 30000
     /\ Len(LastCallProfile.layers) = 3
     /\ \A i \in 1..3 : heap[LastCallProfile.layers[i]].thickness = <<4, 10, 30>>[i]
     /\ LastCallProfile.ground_water_level = 2
     /\ Len(log.exps) = 3
     /\ \A i \in 1..3 : log.exps[i].depth = <<4, 14, 44>>[i])
        => /\ ret.error = "ok"
           /\ Len(ret.value) = 3
           /\ \A i \in 1..3 : ret.value[i].depth = <<4, 14, 44>>[i]

-----------------------------------------------------------------------------
(* C11: the four-piece rd takes 1 - 0.00765 d up to and including 9.15 m,  *)
(* 1.174 - 0.0267 d strictly between 9.15 m and 23 m, 0.744 - 0.008 d from *)
(* 23 m inclusive to below 30 m, and exactly 0.5 from 30 m on; the copy in *)
(* spt.idriss and the copy in helper_functions return the same value for   *)
(* every depth (d in centimetres, rd in units of 1e-7).                    *)
C11_RdBranches ==
    ret.op \in {"hf.calc_rd", "spt.calc_rd"}
        => LET d == ret.depth
               v == ret.value
           IN  /\ d <= 915 => v = 10000000 - 765 * d
               /\ (d > 915 /\ d < 2300) => v = 11740000 - 2670 * d
               /\ (d >= 2300 /\ d < 3000) => v = 7440000 - 800 * d
               /\ d >= 3000 => v = 5000000
               /\ v = hf_calc_rd(d)
               /\ v = spt_calc_rd(d)

(* rd of helper_functions at 9.15 m itself: 1 - 0.00765 * 9.15.            *)
C11_Witness ==
    /\ ret.op = "hf.calc_rd"
    /\ ret.depth = 915
    /\ ret.value = 9300025

-----------------------------------------------------------------------------
(* C12: the verdict is true exactly when the safety factor is at least the *)
(* limit (equality counts), or the water table is strictly deeper than the *)
(* query depth, or the plasticity index of the layer governing the depth   *)
(* is strictly above 12; the SPT check_safety is also true when            *)
(* n160 >= 30 or n160f >= 34, and false when none of these holds.          *)
C12_SafetyVerdict ==
    /\ ret.op = "hf.check_safety"
         => LET p == profiles[ret.profile]
                k == get_layer_index(heap, p, ret.depth) + 1
            IN  ret.value = TRUE
                    <=> \/ ~(ret.safety_factor < ret.limit_safety_factor)
                        \/ ret.depth < p.ground_water_level
                        \/ heap[p.layers[k]].plasticity_index > 12
    /\ ret.op = "spt.check_safety"
         => ret.value = TRUE
                <=> \/ ~(ret.safety_factor < ret.limit_safety_factor)
                    \/ ret.depth < ret.gwt
                    \/ ret.plasticity_index > 12
                    \/ ret.n160 >= 30
                    \/ ret.n160f >= 34

(* A safety factor equal to the default limit 1.1 under water in a layer   *)
(* with plasticity index 12: safe by the equality alone.                   *)
C12_Witness ==
    /\ ret.op = "hf.check_safety"
    /\ ret.safety_factor = 110000
    /\ ret.limit_safety_factor = 110000
    /\ ret.depth >= profiles[ret.profile].ground_water_level
    /\ get_layer_at_depth(heap, profiles[ret.profile], ret.depth).plasticity_index = 12
    /\ ret.value = TRUE

(* The SPT verdict with nothing in its favour: false.                      *)
C12_WitnessUnsafe ==
    /\ ret.op = "spt.check_safety"
    /\ ret.safety_factor = 109999
    /\ ret.limit_safety_factor = 110000
    /\ ret.gwt = ret.depth
    /\ ret.plasticity_index = 12
    /\ ret.n160 = 29
    /\ ret.n160f = 33
    /\ ret.value = FALSE

-----------------------------------------------------------------------------
(* C14: the SPT calc_crr raises ValueError for every n160f >= 34, 34       *)
(* included; for every n160f < 34 it raises nothing and returns the pair   *)
(* (CRR75, CRR) with CRR = CRR75 x MSF.                                    *)
C14_CrrDomain ==
    ret.op = "spt.calc_crr"
        => /\ ret.n160f >= 34 => ret.error = "ValueError"
           /\ ret.n160f < 34 => /\ ret.error = "ok"
                                /\ ret.crr = FMul(ret.crr75, ret.MSF)

(* The first case of test_calc_crr, (10, 100, 7.5): CRR75 = 11.3118 and    *)
(* CRR = 84.839, to the precision of the fixed point.                      *)
C14_Witness ==
    /\ ret.op = "spt.calc_crr"
    /\ ret.n160f = 10
    /\ ret.effective_stress = 10000000
    /\ ret.MSF = 750000
    /\ ret.error = "ok"
    /\ Abs(ret.crr75 - 1131180) <= 1131
    /\ Abs(ret.crr - 8483914) <= 8484

(* calc_crr(34, ...) raises, calc_crr(33, ...) returns.                    *)
C14_WitnessBound ==
    /\ ret.op = "spt.calc_crr"
    /\ ret.n160f = 34
    /\ ret.error = "ValueError"

-----------------------------------------------------------------------------
(* C16: the settlement is 0 whenever the safety factor is above 2, for the *)
(* three derivations of the shared estimator (via n90, via vs1c, via qci)  *)
(* and for the SPT module's calc_settlement, for every layer thickness and *)
(* every index value.                                                      *)
C16_ZeroAboveTwo ==
    (/\ ret.op \in {"calc_settlement_via_n90", "calc_settlement_via_vs1c",
                    "calc_settlement_via_qci", "spt.calc_settlement"}
     /\ ret.safety_factor > 2 * Scale)
        => /\ ret.error = "ok"
           /\ ret.value = 0

(* The same for the two functions that return: calc_settlement_via_qci and *)
(* the SPT module's calc_settlement.                                       *)
C16_ZeroWhereReturned ==
    (/\ ret.op \in {"calc_settlement_via_qci", "spt.calc_settlement"}
     /\ ret.safety_factor > 2 * Scale)
        => /\ ret.error = "ok"
           /\ ret.value = 0

-----------------------------------------------------------------------------
(* The curves of the claim: s1, s2 and the lower bound of the interval,    *)
(* for the logarithm lnq of the tip resistance.                            *)
ClaimLowerBound(lnq) == 2 * Scale - FDiv(Scale, a2 + FMul(a3, lnq))

ClaimS1(lnq, safety_factor) ==
    FDiv(a0 + FMul(a1, lnq),
         FDiv(Scale, 2 * Scale - safety_factor) - (a2 + FMul(a3, lnq)))

ClaimS2(lnq) == b0 + FMul(b1, lnq) + FMul(b2, FMul(lnq, lnq))

ClaimStrain(q, safety_factor) ==
    IF safety_factor > 2 * Scale THEN 0
    ELSE IF safety_factor < 2 * Scale /\ safety_factor > ClaimLowerBound(FLn(q))
    THEN Min(ClaimS1(FLn(q), safety_factor), ClaimS2(FLn(q)))
    ELSE ClaimS2(FLn(q))

(* C17: the volumetric strain is min(s1, s2) for a safety factor strictly  *)
(* inside (2 - 1 / (a2 + a3 ln qci), 2) and s2 alone for a safety factor   *)
(* at or below the lower bound of that interval; the settlement returned   *)
(* is the strain times the layer thickness.                                *)
C17_StrainBranches ==
    /\ (ret.op = "calc_volumetric_strain" /\ ret.qci > 0)
         => LET lnq == FLn(ret.qci)
            IN  /\ (/\ ClaimLowerBound(lnq) < ret.safety_factor
                     /\ ret.safety_factor < 2 * Scale)
                        => /\ ret.error = "ok"
                           /\ ret.value = Min(ClaimS1(lnq, ret.safety_factor), ClaimS2(lnq))
                /\ ret.safety_factor <= ClaimLowerBound(lnq)
                        => /\ ret.error = "ok"
                           /\ ret.value = ClaimS2(lnq)
    /\ (ret.op = "calc_settlement_via_qci" /\ ret.qci > 0)
         => /\ ret.error = "ok"
            /\ ret.value = FMul(ClaimStrain(ret.qci, ret.safety_factor), ret.layer_thickness)
    /\ ret.op = "spt.calc_settlement"
         => /\ ret.error = "ok"
            /\ ret.value = FMul(ClaimStrain(ret.q, ret.safety_factor), ret.layer_thickness)

(* test_calc_settlement's (1.5, 2.0, 10): inside the interval, s1 below    *)
(* s2, a thickness of 2 m, settlement 0.4044 within the test's tolerance.  *)
C17_Witness ==
    /\ ret.op = "spt.calc_settlement"
    /\ ret.safety_factor = 150000
    /\ ret.layer_thickness = 200000
    /\ ret.n90 = 10
    /\ ClaimLowerBound(FLn(ret.q)) < ret.safety_factor
    /\ ClaimS1(FLn(ret.q), ret.safety_factor) < ClaimS2(FLn(ret.q))
    /\ Abs(ret.value - 40440) <= 40

(* A safety factor below the lower bound: the strain is s2.                *)
C17_WitnessBelow ==
    /\ ret.op = "calc_volumetric_strain"
    /\ ret.qci = 6000000
    /\ ret.safety_factor = 50000
    /\ ret.safety_factor <= ClaimLowerBound(FLn(ret.qci))
    /\ ret.error = "ok"
    /\ ret.value = ClaimS2(FLn(ret.qci))

-----------------------------------------------------------------------------
(* C18: the blow-count lookup returns exactly 33 for n90 = 3 and exactly   *)
(* 200 for n90 = 30, a blow count below 3 or above 30 is clamped first,    *)
(* and every qci is within [33, 200]; for the shared estimator             *)
(* (n90_to_qci, calc_settlement_via_n90) and the SPT calc_settlement.      *)
C18_LookupBounds ==
    /\ ret.op = "n90_to_qci"
         => /\ ret.error = "ok"
            /\ ret.n90 = 3 => ret.value = 33 * Scale
            /\ ret.n90 = 30 => ret.value = 200 * Scale
            /\ (ret.n90 >= 3 /\ ret.n90 <= 30)
                   => (ret.value >= 33 * Scale /\ ret.value <= 200 * Scale)
    /\ ret.op = "calc_settlement_via_n90" => ret.error = "ok"
    /\ ret.op = "spt.calc_settlement"
         => /\ ret.n90 <= 3 => ret.q = 33 * Scale
            /\ ret.n90 >= 30 => ret.q = 200 * Scale
            /\ ret.q >= 33 * Scale /\ ret.q <= 200 * Scale
            /\ \A n \in N90s : n <= ret.n90 => spt_settlement_q(n) <= ret.q

(* The part of C18 about the SPT module's calc_settlement alone.           *)
C18_SptLookup ==
    ret.op = "spt.calc_settlement"
        => /\ ret.n90 <= 3 => ret.q = 33 * Scale
           /\ ret.n90 >= 30 => ret.q = 200 * Scale
           /\ ret.q >= 33 * Scale /\ ret.q <= 200 * Scale
           /\ \A n \in N90s : n <= ret.n90 => spt_settlement_q(n) <= ret.q

-----------------------------------------------------------------------------
(* C19: calc_settlement_via_vs1c clamps Dr to [30, 90], interpolates it    *)
(* against the relative-density table paired entry for entry with the q    *)
(* values, and so returns a settlement, not an error, for every vs1c.      *)
C19_Vs1cSettles ==
    ret.op = "calc_settlement_via_vs1c"
        => /\ Len(relative_densities) = Len(q_list)
           /\ ret.error = "ok"

-----------------------------------------------------------------------------
(* C13: the SPT analyse_for_layer, for a reading with n160 >= 30 or        *)
(* n160f >= 34 (and a demand above zero, so that the safety factor         *)
(* exists), returns a result record with is_safe = true.                   *)
C13_SafeBeyondBounds ==
    (/\ ret.op = "spt.analyse_for_layer"
     /\ ret.exp.n160 >= 30 \/ ret.exp.n160f >= 34
     /\ ret.pga > 0 /\ ret.normal_stress > 0)
        => ret.error = "ok" /\ ret.value.is_safe

(* What holds instead: the records that are returned for such a reading    *)
(* are marked safe, and a reading with n160f >= 34 returns none.           *)
C13_SafeWhereReturned ==
    (/\ ret.op = "spt.analyse_for_layer"
     /\ ret.exp.n160 >= 30 \/ ret.exp.n160f >= 34)
        => IF ret.exp.n160f >= 34 THEN ret.error = "ValueError"
           ELSE ret.error = "ok" => ret.value.is_safe

-----------------------------------------------------------------------------
(* C15: the MASW analyse_for_layer, whenever vs1 >= vs1c (vs1 being the    *)
(* velocity times Cn, which takes an effective stress above zero), returns *)
(* the record with CRR75 = 0, CRR = 0, safetyFactor = 0, settlement = 0    *)
(* and is_safe = true, whatever the limit, the water table and the         *)
(* plasticity index; it returns, so neither calc_crr's quotient nor the    *)
(* settlement estimator (which raises for every argument) was evaluated.   *)
C15_ShortCut ==
    (/\ ret.op = "masw.analyse_for_layer"
     /\ calc_effective_stress(heap, LastCallProfile, ret.depth) > 0
     /\ vs1_reaches_vs1c(ret.exp.shear_wave_velocity,
                         calc_effective_stress(heap, LastCallProfile, ret.depth),
                         calc_vs1c_x2(get_layer_at_depth(heap, LastCallProfile,
                                                         ret.depth).fine_content)))
        => /\ ret.error = "ok"
           /\ ret.value.CRR75 = 0 /\ ret.value.CRR = 0
           /\ ret.value.safetyFactor = 0 /\ ret.value.settlement = 0
           /\ ret.value.is_safe = TRUE

(* The short cut is taken under the water table in a layer without         *)
(* plasticity, where check_safety would not call a safety factor of 0 safe.*)
C15_Witness ==
    /\ ret.op = "masw.analyse_for_layer" /\ ret.error = "ok"
    /\ ret.value.safetyFactor = 0 /\ ret.value.is_safe
    /\ ret.value.CSR > 0
    /\ ~hf_check_safety(heap, LastCallProfile, ret.depth, 0, ret.limit_safety_factor)

(* The short cut is taken at vs1 = vs1c.                                   *)
C15_WitnessEqual ==
    /\ ret.op = "masw.analyse_for_layer" /\ ret.error = "ok"
    /\ ret.exp.shear_wave_velocity = 500 /\ ret.depth = 79
    /\ ret.value.effectiveStress = 6241000
    /\ ret.value.is_safe

-----------------------------------------------------------------------------
(* C20: the safety factor of a result record is CSR / CRR in the CPT       *)
(* pipeline and CRR / CSR in the SPT and MASW pipelines (for MASW also     *)
(* where the call raises after it computed the quotient), and CSR is       *)
(* 0.65 * pga * normal stress * rd in all three, the normal stress being   *)
(* the total stress at the depth.                                          *)
ClaimCsr(pga, normal_stress, rd) == FMul(FMul(FMul(65000, pga), normal_stress), rd)

C20_SafetyFactorAndCsr ==
    /\ (ret.op = "cpt.analyse_for_layer" /\ ret.error = "ok")
           => /\ ret.value.safetyFactor = FDiv(ret.value.CSR, ret.value.CRR)
              /\ ret.value.CSR
                    = ClaimCsr(ret.pga,
                               StressFixed(calc_normal_stress(heap, LastCallProfile,
                                                              ret.depth)),
                               ret.value.rd)
    /\ (ret.op = "spt.analyse_for_layer" /\ ret.error = "ok")
           => /\ ret.value.safetyFactor = FDiv(ret.value.CRR, ret.value.CSR)
              /\ ret.value.CSR = ClaimCsr(ret.pga, ret.normal_stress, ret.value.rd)
    /\ (ret.op = "masw.analyse_for_layer" /\ ret.error = "ok")
           => /\ ret.value.CSR # 0
                    => ret.value.safetyFactor = FDiv(ret.value.CRR, ret.value.CSR)
              /\ ret.value.CSR
                    = ClaimCsr(ret.pga,
                               StressFixed(calc_normal_stress(heap, LastCallProfile,
                                                              ret.depth)),
                               ret.value.rd)
    /\ (ret.op = "masw.analyse_for_layer" /\ "safetyFactor" \in DOMAIN ret)
           => ret.safetyFactor = FDiv(ret.CRR, ret.CSR)

(* A CPT record under the water table (normal above effective stress)      *)
(* with a demand above the resistance: a safety factor above 1.            *)
C20_Witness ==
    /\ ret.op = "cpt.analyse_for_layer" /\ ret.error = "ok"
    /\ ret.value.normalStress > ret.value.effectiveStress
    /\ ret.value.CSR > ret.value.CRR /\ ret.value.CRR > 0
    /\ ret.value.safetyFactor > Scale

(* An SPT record with normal above effective stress and a resistance       *)
(* above the demand.                                                       *)
C20_WitnessSpt ==
    /\ ret.op = "spt.analyse_for_layer" /\ ret.error = "ok"
    /\ ret.normal_stress > ret.effective_stress
    /\ ret.value.CRR > ret.value.CSR /\ ret.value.CSR > 0
    /\ ret.value.safetyFactor > Scale

(* A MASW call that computed crr / csr before it raised.                   *)
C20_WitnessMasw ==
    /\ ret.op = "masw.analyse_for_layer" /\ ret.error # "ok"
    /\ "safetyFactor" \in DOMAIN ret
    /\ ret.safetyFactor > 0 /\ ret.CRR # ret.CSR

-----------------------------------------------------------------------------
(* The solver as C21 words it: the stress correction recomputed in each    *)
(* iteration, (10.132 / effective_stress)^m, is the one returned, capped   *)
(* at 1.7. Defined for the arguments on which the iteration settles.       *)
RECURSIVE ClaimCn(_, _, _, _)
ClaimCn(m, qcn, effective_stress, fine_content) ==
    LET es == Max(effective_stress, 10000)
        cn == FPow(FDiv(1013200, es), m)
        qc1n0 == FMul(qcn, cn)
        qc1ncs0 == qc1n0 + FinesCorrection(qc1n0, fine_content)
        m_new == 133800 - FMul(24900, FPow(qc1ncs0, 26400))
    IN  IF Abs(m_new - m) <= 100
        THEN Min(170000, cn)
        ELSE ClaimCn(m_new, qcn, es, fine_content)

(* C21: a call of the CPT Cn solver that converges returns the stress      *)
(* correction of its last iteration, (10.132 / effective_stress)^m with    *)
(* the effective stress floored at 0.1, capped at 1.7.                     *)
C21_ReturnsIteratedCn ==
    (ret.op = "cpt.calc_cn" /\ ret.error = "ok")
        => ret.value = ClaimCn(ret.m, ret.qcn, ret.effective_stress, ret.fine_content)

(* The part of C21 the solver keeps: a returned Cn is never above 1.7,     *)
(* and below the cap it is (100 / effective_stress)^m.                     *)
C21_NeverAboveCap ==
    (ret.op = "cpt.calc_cn" /\ ret.error = "ok") => ret.value <= 170000

(* C22: a call of the CPT Cn solver converges or fails with a              *)
(* convergence error of its own after a bounded number of iterations; it   *)
(* never recurses until the interpreter stops it.                          *)
C22_ConvergesOrFailsDistinctly ==
    ret.op = "cpt.calc_cn" => ret.error \in {"ok", "ConvergenceError"}

-----------------------------------------------------------------------------
(* The call recorded in r made again, on the heap h, the profiles ps and   *)
(* the log l.                                                              *)
Reanalysed(r, h, ps, l) ==
    [op |-> "analyse_liquefaction", kind |-> r.kind, profile |-> r.profile,
     Mw |-> r.Mw, pga |-> r.pga]
    @@ (IF r.kind = "SPT"
        THEN spt_analyse_liquefaction(h, ps[r.profile], l.exps, r.Mw, r.pga)
        ELSE analyse_liquefaction(r.kind, h, ps[r.profile], l.exps, r.Mw, r.pga))

-----------------------------------------------------------------------------
(* C24: in every state reached by constructions, copies and queries,       *)
(* every profile that exists has, for each layer i, depth = the            *)
(* thicknesses of its layers 0..i summed and center = the previous bottom  *)
(* + thickness / 2: no later operation changes what its construction       *)
(* derived.                                                                *)
C24_DepthsStayDerived ==
    \A k \in 1..Len(profiles) :
        \A i \in 1..Len(profiles[k].layers) :
            /\ heap[profiles[k].layers[i]].depth = CumThickness(heap, profiles[k].layers, i)
            /\ heap[profiles[k].layers[i]].center =
                  CumThickness(heap, profiles[k].layers, i - 1)
                  + Half(heap[profiles[k].layers[i]].thickness)

(* The part of C24 that holds: copy(), and a modification of the copy,     *)
(* leave every layer object that existed before as it was.                 *)
C24_CopyLeavesOriginal ==
    [][ret'.op \in {"copy", "modified copy"}
           => \A id \in DOMAIN heap : heap'[id] = heap[id]]_vars

-----------------------------------------------------------------------------
(* The qc1ncs the CPT pipeline computes at a depth (analyse_for_layer,     *)
(* boulanger_idriss.py:194-196), for a depth whose record was returned.    *)
ClaimQc1ncs(h, p, exp, depth) ==
    cpt_calc_qc1ncs(exp.cone_resistance * Scale,
                    get_layer_at_depth(h, p, depth).fine_content * Scale,
                    cpt_calc_cn(Scale \div 2, exp.cone_resistance * Scale,
                                StressFixed(calc_effective_stress(h, p, depth)),
                                get_layer_at_depth(h, p, depth).fine_content * Scale).value)

(* x and y differ by at most one percent of y (and one unit of the last    *)
(* place): more than the rounding of the arithmetic, less than what        *)
(* separates two scaling factors.                                          *)
WithinOnePercent(x, y) == Abs(x - y) <= Abs(y) \div 100 + 1

(* C25: in every record of a CPT analysis, CRR is CRR75 times the scaling  *)
(* factor of the CPT module for the analysed magnitude and that depth's    *)
(* qc1ncs, msf = 1 + (msf_max - 1)(8.64 e^(-Mw/4) - 1.325) with            *)
(* msf_max = min(2.2, 1.09 + (qc1ncs/180)^3).                              *)
C25_CrrByCptMsf ==
    (ret.op = "analyse_liquefaction" /\ ret.kind = "CPT" /\ ret.error = "ok")
        => \A i \in 1..Len(ret.value) :
              WithinOnePercent(ret.value[i].CRR,
                               FMul(cpt_calc_msf(ret.Mw,
                                                 ClaimQc1ncs(heap, LastCallProfile,
                                                             ret.value[i].exp,
                                                             ret.value[i].depth)),
                                    ret.value[i].CRR75))

(* What the pipeline does: CRR is CRR75 times helper_functions.calc_msf    *)
(* of the magnitude, at every depth.                                       *)
C25_CrrByHelperMsf ==
    (ret.op = "analyse_liquefaction" /\ ret.kind = "CPT" /\ ret.error = "ok")
        => \A i \in 1..Len(ret.value) :
              ret.value[i].CRR = FMul(hf_calc_msf(ret.Mw), ret.value[i].CRR75)

-----------------------------------------------------------------------------
(* C26: the rd of a MASW record is the stress reduction factor at the      *)
(* depth analysed, and its CSR is 0.65 * pga * normal stress * that rd,    *)
(* also at a depth strictly inside a layer.                                *)
C26_RdAtQueryDepth ==
    (ret.op = "masw.analyse_for_layer" /\ ret.error = "ok")
        => /\ ret.value.rd = RdFixed(hf_calc_rd(50 * ret.depth))
           /\ ret.value.CSR = hf_calc_csr(ret.pga, ret.value.normalStress,
                                          RdFixed(hf_calc_rd(50 * ret.depth)))

(* What the code does: rd is taken at the bottom of the layer the depth    *)
(* lies in, so C26 holds for the depths that are layer bottoms.            *)
C26_RdAtLayerBottom ==
    (ret.op = "masw.analyse_for_layer" /\ ret.error = "ok")
        => ret.value.rd
              = RdFixed(hf_calc_rd(50 * get_layer_at_depth(heap, LastCallProfile,
                                                           ret.depth).depth))

-----------------------------------------------------------------------------
(* C27: in every pipeline, at a depth at or under the water table in a     *)
(* layer with plasticity index <= 12 and with a demand above 0, a          *)
(* resistance of at least threshold * CSR (CRR / CSR >= threshold) is      *)
(* reported safe; so more resistance never turns a safe verdict unsafe.    *)
C27_SafeWhenResistanceSuffices ==
    /\ (/\ ret.op \in {"cpt.analyse_for_layer", "masw.analyse_for_layer"}
        /\ ret.error = "ok"
        /\ LastCallProfile.ground_water_level <= ret.depth
        /\ get_layer_at_depth(heap, LastCallProfile, ret.depth).plasticity_index <= 12
        /\ ret.value.CSR > 0
        /\ FDiv(ret.value.CRR, ret.value.CSR) >= ret.limit_safety_factor)
           => ret.value.is_safe
    /\ (/\ ret.op = "spt.analyse_for_layer"
        /\ ret.error = "ok"
        /\ ret.gwt <= ret.exp.depth
        /\ heap[ret.layer].plasticity_index <= 12
        /\ ret.value.CSR > 0
        /\ FDiv(ret.value.CRR, ret.value.CSR) >= ret.limit_safety_factor)
           => ret.value.is_safe

(* What the CPT pipeline does under the same conditions: the verdict is    *)
(* safe exactly when CSR / CRR reaches the threshold, so it is safe for a  *)
(* low resistance and unsafe for a high one.                               *)
C27_CptVerdictByDemandOverResistance ==
    (/\ ret.op = "cpt.analyse_for_layer"
     /\ ret.error = "ok"
     /\ LastCallProfile.ground_water_level <= ret.depth
     /\ get_layer_at_depth(heap, LastCallProfile, ret.depth).plasticity_index <= 12)
        => (ret.value.is_safe
               <=> FDiv(ret.value.CSR, ret.value.CRR) >= ret.limit_safety_factor)

(* The SPT pipeline keeps C27.                                             *)
C27_SptVerdictByResistanceOverDemand ==
    (/\ ret.op = "spt.analyse_for_layer"
     /\ ret.error = "ok"
     /\ ret.gwt <= ret.exp.depth
     /\ heap[ret.layer].plasticity_index <= 12
     /\ ret.exp.n160 < 30)
        => (ret.value.is_safe
               <=> FDiv(ret.value.CRR, ret.value.CSR) >= ret.limit_safety_factor)

-----------------------------------------------------------------------------
(* C28: the volumetric strain is 0 only for a safety factor strictly above *)
(* 2. At a safety factor of exactly 2 neither the zero branch nor the      *)
(* blended branch applies and the strain is s2, as it is at and below the  *)
(* lower bound of the interval; in calc_volumetric_strain and in the SPT   *)
(* module's calc_settlement, which returns that strain times the layer     *)
(* thickness.                                                              *)
C28_ZeroOnlyAboveTwo ==
    /\ (ret.op = "calc_volumetric_strain" /\ ret.qci > 0)
         => /\ ret.error = "ok"
            /\ ret.value = 0 => ret.safety_factor > 2 * Scale
            /\ ret.safety_factor = 2 * Scale => ret.value = ClaimS2(FLn(ret.qci))
    /\ (ret.op = "spt.calc_settlement" /\ ret.layer_thickness > 0)
         => /\ ret.error = "ok"
            /\ ret.value = 0 => ret.safety_factor > 2 * Scale
            /\ ret.safety_factor = 2 * Scale
                  => ret.value = FMul(ClaimS2(FLn(ret.q)), ret.layer_thickness)

(* A safety factor of exactly 2 at a tip resistance of 60, whose interval  *)
(* is not empty (its lower bound is below 2): the strain is s2, above 0.   *)
C28_Witness ==
    /\ ret.op = "calc_volumetric_strain"
    /\ ret.qci = 6000000
    /\ ret.safety_factor = 2 * Scale
    /\ ClaimLowerBound(FLn(ret.qci)) < 2 * Scale
    /\ ret.error = "ok"
    /\ ret.value = ClaimS2(FLn(ret.qci))
    /\ ret.value > 0

(* The SPT module's calc_settlement at a safety factor of exactly 2.       *)
C28_WitnessSpt ==
    /\ ret.op = "spt.calc_settlement"
    /\ ret.safety_factor = 2 * Scale
    /\ ret.layer_thickness = 200000
    /\ ret.n90 = 10
    /\ ret.value = FMul(ClaimS2(FLn(ret.q)), 200000)
    /\ ret.value > 0

-----------------------------------------------------------------------------
(* The outcome of a call: the value returned, or that it raised.           *)
Outcome(r) == IF r.error = "ok" THEN <<"returns", r.value>> ELSE <<"raises">>

(* C29: for every safety factor, layer thickness and n90 the shared        *)
(* estimator's calc_settlement_via_n90 and the SPT module's                *)
(* calc_settlement have the same outcome: the same value, or both raise.   *)
C29_BlowCountSettlementsAgree ==
    /\ ret.op = "calc_settlement_via_n90"
         => Outcome(ret) = Outcome(spt_calc_settlement(ret.safety_factor,
                                                       ret.layer_thickness, ret.n90))
    /\ ret.op = "spt.calc_settlement"
         => Outcome(ret) = Outcome(calc_settlement_via_n90(ret.safety_factor,
                                                           ret.layer_thickness, ret.n90))

(* What holds instead: from the tip resistance on the two agree. The       *)
(* shared estimator's strain at the q the SPT function interpolated,       *)
(* times the layer thickness, is what the SPT function returns.            *)
C29_AgreeFromTipResistance ==
    ret.op = "spt.calc_settlement"
        => Outcome(ret) = Outcome(calc_settlement_via_qci(ret.safety_factor,
                                                          ret.layer_thickness, ret.q))

(* The arguments the Vesic range constraints are about, by parameter name. *)
ClaimAngleArguments == {"phi", "slope_angle", "base_angle", "foundation_base_angle"}

ClaimPositiveArguments == {"foundation_width", "foundation_length", "nq", "nc"}

ClaimNonNegativeArguments ==
    {"cohesion", "vertical_load", "horizontal_load_x", "horizontal_load_y", "iq",
     "foundation_depth"}

(* Every argument of the call r is within its range: angles in [0, 90],    *)
(* widths, lengths, Nq and Nc positive, cohesion, loads, iq and depth not  *)
(* negative.                                                               *)
ClaimInRange(r) ==
    \A f \in DOMAIN r :
        /\ f \in ClaimAngleArguments => 0 <= r[f] /\ r[f] <= 90 * Scale
        /\ f \in ClaimPositiveArguments => r[f] > 0
        /\ f \in ClaimNonNegativeArguments => r[f] >= 0

VesicCalls ==
    {"vesic.calc_bearing_capacity_factors", "vesic.calc_shape_factors",
     "vesic.calc_load_inclination_factors", "vesic.calc_base_factors",
     "vesic.calc_ground_factors", "vesic.calc_depth_factors"}

(* C30: every Vesic factor function rejects an out-of-range argument       *)
(* (angle outside [0, 90], non-positive width, length, Nq or Nc, negative  *)
(* cohesion, load, iq or depth) with a validation error before computing   *)
(* any factor, and accepts every in-range argument tuple, returning its    *)
(* three factors.                                                          *)
C30_RejectsOutOfRangeAcceptsInRange ==
    ret.op \in VesicCalls
        => /\ ~ClaimInRange(ret) => ret.error = "ValidationError" /\ "value" \notin DOMAIN ret
           /\ ClaimInRange(ret) => ret.error = "ok" /\ Len(ret.value) = 3

(* C30, the rejecting half alone: a call is rejected with a validation     *)
(* error, no factor computed, exactly when an argument is out of range.    *)
C30_ValidationErrorIffOutOfRange ==
    ret.op \in VesicCalls
        => /\ ret.error = "ValidationError" <=> ~ClaimInRange(ret)
           /\ ret.error = "ValidationError" => "value" \notin DOMAIN ret

(* C30: a call with an out-of-range argument that was rejected.            *)
C30_WitnessRejected ==
    ret.op \in VesicCalls /\ ~ClaimInRange(ret) /\ ret.error = "ValidationError"

====
